---- MODULE Spec2Model ----
(***************************************************************************)
(* Verification model of the spotiframes playlist automation:              *)
(*   - description sanitization (description_helpers.py)                   *)
(*   - the month window of update_monthly_playlists /                      *)
(*     consolidate_old_monthly_playlists                                   *)
(*   - the reconciliation pipeline over a remote playlist library          *)
(*     (playlist_update.py, playlist_consolidation.py, descriptions.py)    *)
(*                                                                         *)
(* Text is a sequence of characters; a character is one of the classes of  *)
(* Char below (one representative per Unicode behaviour the code branches  *)
(* on), or an atom standing for a run of ordinary text.                    *)
(***************************************************************************)
EXTENDS Integers, Sequences, FiniteSets, TLC

VARIABLES
  sanIn,      \* sanitizer run: the raw description
  sanMax,     \* sanitizer run: max_length
  sanOut,     \* sanitize_description_for_api(sanIn, sanMax)
  sanOut2,    \* sanitize_description_for_api(sanOut, sanMax)
  sanPc,      \* "init" | "once" | "twice"
  mNow,       \* month window run: datetime.now() as <<year, month>>
  mKeep,      \* month window run: keep_last_n_months
  mRecent,    \* recent_months of update_monthly_playlists
  mRolled,    \* months whose monthly playlist consolidation collects
  mPc,        \* set of the computations done: "recent", "rolled"
  pl,         \* remote library: playlist id -> playlist (or NoPlaylist)
  nextPid,    \* the id the remote side gives the next created playlist
  liked,      \* liked songs snapshot: track -> <<year, month>> added, or NotLiked
  plays,      \* streaming history of the current year: track -> play count
  tcache,     \* _playlist_tracks_cache of the running process
  ecache,     \* cached get_existing_playlists result of the running process
  dcache,     \* .description_snapshot_cache.json: playlist id -> marker (0: none)
  dkind,      \* what the marker cache file holds: one of CacheKinds
  save,       \* a _save_snapshot_cache in progress: [pc, old, new]
  args,       \* command line of a run of main(): [steps, skip_sync, sync_only, force, ...]
  run,        \* progress of that run: [pc, steps_to_run, pos, started, ...]
  synced,     \* library sync's own marker cache: playlist id -> marker (0: none)
  skips,      \* playlists the run skipped on equal markers: [sync, descriptions]
  stepIdx,    \* position of the running process in the step order
  userActs,   \* manual edits made so far
  lastOp,     \* the operation that ran last
  opCount,    \* operations and outside changes so far
  procs,      \* processes started so far
  calls,      \* mutating remote calls of the last operation, in order
  reads,      \* number of remote read calls of the last operation
  updates,    \* additive updates of existing playlists by the last operation
  dels,       \* deletions attempted by the last operation
  backups,    \* playlist ids the last operation wrote a backup file for
  checks,     \* re-fetch comparisons of the last operation before a deletion
  result      \* return value of the last direct call

sanVars == <<sanIn, sanMax, sanOut, sanOut2, sanPc>>
monthVars == <<mNow, mKeep, mRecent, mRolled, mPc>>
remoteVars == <<pl, nextPid, liked, plays>>
cacheVars == <<tcache, ecache, dcache, dkind>>
fileVars == <<save>>
cliVars == <<args, run, synced, skips>>
runVars == <<stepIdx, userActs, lastOp, opCount, procs>>
logVars == <<calls, reads, updates, dels, backups, checks, result>>
mainVars == <<remoteVars, cacheVars, runVars, logVars, fileVars, cliVars>>
vars == <<sanVars, monthVars, mainVars>>

-----------------------------------------------------------------------------
(* Bounds *)
MaxStrLen == 3      \* longest raw description drawn
MaxMaxLen == 4      \* largest max_length drawn
FirstYear == 2023   \* first calendar year drawn
NumYears == 3       \* number of calendar years drawn
MaxKeep == 4        \* largest keep_last_n_months drawn
MaxTracks == 2      \* number of distinct tracks
MaxPid == 4         \* number of playlist ids the remote side hands out
MaxKeepMain == 1    \* largest keep_last_n_months passed in the pipeline
MaxUserActs == 1    \* number of changes made outside the program
MaxOps == 5         \* number of operations and outside changes
MaxProcs == 2       \* number of processes
MaxPlays == 1       \* largest play count of a track
MaxPieces == 2      \* number of comma-separated pieces of --steps
MaxCalls == 3       \* number of consecutive calls on one playlist
MaxKeepCall == 3    \* largest keep_last_n_months of a single call

\* SPOTIFY_MAX_DESCRIPTION_LENGTH
SpotifyMaxDescriptionLength == 300
\* the chunk size passed to _chunked
ChunkSize == 50

-----------------------------------------------------------------------------
(* Characters.                                                             *)
(*  "a"   LATIN SMALL LETTER A (Ll), composes with "cm"                    *)
(*  "cm"  COMBINING ACUTE ACCENT U+0301 (Mn)                               *)
(*  "ae"  LATIN SMALL LETTER A WITH ACUTE U+00E1 (Ll) = NFC("a" "cm")      *)
(*  "zw"  ZERO WIDTH JOINER U+200D (Cf)                                    *)
(*  "ctl" U+0001 (Cc, inside the regex class)                              *)
(*  "nl"  LINE FEED U+000A (Cc, outside the regex class)                   *)
(*  "cr"  CARRIAGE RETURN U+000D (Cc, outside the regex class)             *)
(*  "emo" an emoji, category So, code point >= 0x1F300                     *)
(*  "sur" a lone surrogate (Cs), not encodable as UTF-8                    *)
(*  "dot" FULL STOP, "qm" QUESTION MARK, "sp" SPACE                        *)
(*  "lp" "rp" "lb" "rb"  ( ) [ ]                                           *)
(*  "w"   a run of ordinary letters                                        *)
(*  "name"    the text of the playlist's own name                          *)
(*  "derived" the line get_base_description_line_for_playlist gives        *)
(*  "templ"   the text format_playlist_description gives at creation       *)
Char == {"a", "cm", "ae", "zw", "ctl", "nl", "cr", "emo", "sur", "dot",
         "qm", "sp", "lp", "rp", "lb", "rb", "w", "name", "derived", "templ"}

\* characters str.strip() and str.split() treat as whitespace
Whitespace == {"sp", "nl", "cr"}

\* unicodedata.category(c), first letter "C" (Cc, Cf, Cs, Co, Cn)
CategoryC == {"zw", "ctl", "nl", "cr", "sur"}
\* category So with code point >= 0x1F300
EmojiSo == {"emo"}
\* the class [\x00-\x08\x0B-\x0C\x0E-\x1F\x7F]
RegexControl == {"ctl"}
\* category Cc
ControlChars == {"ctl", "nl", "cr"}

RECURSIVE Filter(_, _)
\* the characters of s that are not in drop, in order
Filter(s, drop) ==
  IF s = <<>> THEN <<>>
  ELSE IF Head(s) \in drop THEN Filter(Tail(s), drop)
       ELSE <<Head(s)>> \o Filter(Tail(s), drop)

RECURSIVE Normalize(_)
\* unicodedata.normalize("NFC", s): a base letter followed by the combining
\* accent composes to the precomposed letter
Normalize(s) ==
  IF Len(s) < 2 THEN s
  ELSE IF s[1] = "a" /\ s[2] = "cm"
       THEN <<"ae">> \o Normalize(SubSeq(s, 3, Len(s)))
       ELSE <<s[1]>> \o Normalize(Tail(s))

\* a mutant of _strip_emoji_and_problematic that keeps control characters
StripKeepingControl(s) == Filter(s, {"zw", "sur"} \cup EmojiSo)

\* _strip_emoji_and_problematic
StripEmojiAndProblematic(s) == Filter(s, CategoryC \cup EmojiSo)

\* Python s[:k]
SliceTo(s, k) ==
  IF k >= 0 THEN SubSeq(s, 1, IF k < Len(s) THEN k ELSE Len(s))
  ELSE SubSeq(s, 1, IF Len(s) + k > 0 THEN Len(s) + k ELSE 0)

RECURSIVE IndexOf(_, _, _)
\* least i >= from with s[i] = c, or 0
IndexOf(s, c, from) ==
  IF from > Len(s) THEN 0
  ELSE IF s[from] = c THEN from ELSE IndexOf(s, c, from + 1)

\* s.split("\n")[0]
FirstLine(s) ==
  LET i == IndexOf(s, "nl", 1) IN IF i = 0 THEN s ELSE SubSeq(s, 1, i - 1)

\* "\n".join(s.split("\n")[1:])
RestLines(s) ==
  LET i == IndexOf(s, "nl", 1) IN IF i = 0 THEN <<>> ELSE SubSeq(s, i + 1, Len(s))

Ellipsis == <<"dot", "dot", "dot">>

\* the truncation block of sanitize_description_for_api
Truncate(s, max_length) ==
  IF Len(s) > max_length
  THEN IF Len(FirstLine(s)) <= max_length - 10
       THEN LET keep == max_length - Len(FirstLine(s)) - 5 IN
            IF keep > 0 /\ Len(RestLines(s)) > keep
            THEN FirstLine(s) \o <<"nl">> \o SliceTo(RestLines(s), keep) \o Ellipsis
            ELSE SliceTo(FirstLine(s), max_length - 3) \o Ellipsis
       ELSE SliceTo(s, max_length - 3) \o Ellipsis
  ELSE s

\* s.encode("utf-8", errors="replace").decode("utf-8")
EncodeReplace(s) == [i \in 1..Len(s) |-> IF s[i] = "sur" THEN "qm" ELSE s[i]]

\* sanitize_description_for_api(description, max_length)
SanitizeForApi(description, max_length) ==
  LET s1 == Normalize(description)
      s2 == StripEmojiAndProblematic(s1)
      s3 == Filter(s2, RegexControl)
      s4 == Filter(s3, {"cr"})
      s5 == Truncate(s4, max_length)
      s6 == IF Len(s5) > max_length THEN SliceTo(s5, max_length) ELSE s5
  IN EncodeReplace(s6)

-----------------------------------------------------------------------------
(* Months.  A "%Y-%m" string is the pair <<year, month>>; comparing two    *)
(* such strings (four-digit year, two-digit month) compares the pairs.     *)

\* datetime.now() - relativedelta(months=n), as strftime("%Y-%m")
SubMonths(ym, n) ==
  LET total == ym[1] * 12 + (ym[2] - 1) - n
  IN <<total \div 12, (total % 12) + 1>>

\* a mutant of the string comparison month_str <= cutoff_year_month: "<"
YmLess(a, b) == a[1] < b[1] \/ (a[1] = b[1] /\ a[2] < b[2])

\* month_str <= cutoff_year_month
YmLeq(a, b) == a[1] < b[1] \/ (a[1] = b[1] /\ a[2] <= b[2])

\* cutoff_year_month of consolidate_old_monthly_playlists
CutoffYearMonth(now, keep_last_n_months) == SubMonths(now, keep_last_n_months)

\* a mutant of recent_months: only the months that have a liked song
RecentMonthsWithData(now, keep_last_n_months) ==
  {ym \in {SubMonths(now, i) : i \in 0..(keep_last_n_months - 1)} :
     \E t \in DOMAIN liked : liked[t] = ym}

\* recent_months of update_monthly_playlists
RecentMonths(now, keep_last_n_months) ==
  {SubMonths(now, i) : i \in 0..(keep_last_n_months - 1)}

(* Playlist names.  format_playlist_name with the default templates gives  *)
(* "{owner}{prefix}{mon}{yy}" for a month and "{owner}{prefix}{yy}" for a  *)
(* year; a name is the record of the parts the template is filled with.    *)
(* ptype is "monthly", "most_played" or "discovery"; the yearly Finds      *)
(* playlist takes PREFIX_YEARLY, which defaults to PREFIX_MONTHLY.         *)

\* year_str = full_year[2:] of _format_date
YearShort(year) == year % 100

\* format_playlist_name(MONTHLY_NAME_TEMPLATE, month, playlist_type=ptype)
MonthlyName(ptype, ym) ==
  [kind |-> "month", ptype |-> ptype, mon |-> ym[2], yy |-> YearShort(ym[1])]

\* format_yearly_playlist_name(str(year)) for "monthly",
\* format_playlist_name(YEARLY_NAME_TEMPLATE, year=year_short, playlist_type=ptype)
YearlyName(ptype, year) ==
  [kind |-> "year", ptype |-> ptype, mon |-> 0, yy |-> YearShort(year)]

\* the year and month consolidation reads back from a monthly name
ParsedMonth(name) == <<2000 + name.yy, name.mon>>

\* whether consolidation collects the playlist of this name
IsRolledOff(name, cutoff) ==
  /\ name.kind = "month"
  /\ YmLeq(ParsedMonth(name), cutoff)


-----------------------------------------------------------------------------
(* Description text of the description synchronizer.                       *)

RECURSIVE LStrip(_)
LStrip(s) ==
  IF s # <<>> /\ Head(s) \in Whitespace THEN LStrip(Tail(s)) ELSE s

RECURSIVE RStrip(_)
RStrip(s) ==
  IF s # <<>> /\ s[Len(s)] \in Whitespace THEN RStrip(SubSeq(s, 1, Len(s) - 1)) ELSE s

\* str.strip()
Strip(s) == LStrip(RStrip(s))

RECURSIVE RemoveDelimited(_, _, _)
\* re.sub(r"\s*\([^)]*\)\s*", " ", text): every opening delimiter that has a
\* closing one after it is replaced, up to the first closing one, by a space
RemoveDelimited(s, open, close) ==
  IF s = <<>> THEN <<>>
  ELSE IF Head(s) = open /\ IndexOf(s, close, 2) # 0
       THEN <<"sp">> \o RemoveDelimited(SubSeq(s, IndexOf(s, close, 2) + 1, Len(s)), open, close)
       ELSE <<Head(s)>> \o RemoveDelimited(Tail(s), open, close)

RECURSIVE CollapseSpace(_)
\* " ".join(text.split()) on a text without leading whitespace
CollapseSpace(s) ==
  IF s = <<>> THEN <<>>
  ELSE IF Head(s) \in Whitespace
       THEN IF LStrip(s) = <<>> THEN <<>> ELSE <<"sp">> \o CollapseSpace(LStrip(s))
       ELSE <<Head(s)>> \o CollapseSpace(Tail(s))

\* _strip_parentheses
StripParentheses(text) ==
  IF text = <<>> THEN text
  ELSE CollapseSpace(LStrip(
         RemoveDelimited(RemoveDelimited(text, "lp", "rp"), "lb", "rb")))

\* build_simple_description(base_line, track_uris, max_mood_tags=0)
BuildSimpleDescription(base_line) ==
  IF base_line # <<>> THEN StripParentheses(Strip(base_line)) ELSE <<>>

\* get_base_description_line_for_playlist(playlist_name) is not None: the
\* name is a monthly name of some type, or a yearly name with PREFIX_YEARLY
HasDerivedLine(name) ==
  \/ name.kind = "month"
  \/ name.kind = "year" /\ name.ptype = "monthly"

\* base_line of _update_playlist_description_with_genres
BaseLine(current_description, name) ==
  LET l0 == Strip(FirstLine(Strip(current_description)))
      base == IF l0 # <<>> THEN l0 ELSE <<"name">>
  IN IF (base = <<>> \/ Strip(base) = <<"name">>) /\ HasDerivedLine(name)
     THEN <<"derived">>
     ELSE base

\* new_description of _update_playlist_description_with_genres
NewDescription(current_description, name) ==
  LET built == BuildSimpleDescription(BaseLine(current_description, name))
      san == SanitizeForApi(StripParentheses(built), SpotifyMaxDescriptionLength)
  IN IF Len(san) > SpotifyMaxDescriptionLength
     THEN SliceTo(san, SpotifyMaxDescriptionLength)
     ELSE san

-----------------------------------------------------------------------------
(* The remote library and the caches of the running process.  A world is   *)
(* the record of the variables an operation reads and writes.              *)

Tracks == 1..MaxTracks
PIDs == 1..MaxPid
Now == <<2024, 11>>
NotLiked == <<0, 0>>

NoName == [kind |-> "none", ptype |-> "none", mon |-> 0, yy |-> 0]
NoPlaylist == [live |-> FALSE, name |-> NoName, tracks |-> {}, desc |-> <<>>, snap |-> 0]
NoCache == [has |-> FALSE, v |-> {}]
NoExisting == [valid |-> FALSE, map |-> <<>>]
NoOp == [op |-> "none", keep |-> 0]

World ==
  [pl |-> pl, nextPid |-> nextPid, tcache |-> tcache, ecache |-> ecache,
   dcache |-> dcache, dkind |-> dkind, calls |-> <<>>, reads |-> 0, updates |-> <<>>,
   dels |-> <<>>, backups |-> {}, checks |-> <<>>, full |-> FALSE]

SeqToSet(s) == {s[i] : i \in 1..Len(s)}

Min(S) == CHOOSE x \in S : \A y \in S : x <= y

RECURSIVE SetToSeq(_)
\* the elements of a set of integers in ascending order
SetToSeq(S) ==
  IF S = {} THEN <<>> ELSE <<Min(S)>> \o SetToSeq(S \ {Min(S)})

RECURSIVE Dedup(_, _)
\* [u for u in s if not (u in seen or seen.add(u))]
Dedup(s, seen) ==
  IF s = <<>> THEN <<>>
  ELSE IF Head(s) \in seen THEN Dedup(Tail(s), seen)
       ELSE <<Head(s)>> \o Dedup(Tail(s), seen \cup {Head(s)})

RECURSIVE Chunked(_)
\* _chunked(seq, 50)
Chunked(s) ==
  IF s = <<>> THEN <<>>
  ELSE <<SliceTo(s, ChunkSize)>> \o
       Chunked(SubSeq(s, (IF Len(s) < ChunkSize THEN Len(s) ELSE ChunkSize) + 1, Len(s)))

\* the playlist's live membership
LiveTracks(w, pid) == IF w.pl[pid].live THEN w.pl[pid].tracks ELSE {}

\* the name -> id mapping of the user's live playlists
LiveExisting(w) ==
  LET names == {w.pl[p].name : p \in {q \in PIDs : w.pl[q].live}}
  IN [n \in names |-> Min({p \in PIDs : w.pl[p].live /\ w.pl[p].name = n})]

\* get_existing_playlists(sp, force_refresh): the value returned
Existing(w, force_refresh) ==
  IF ~force_refresh /\ w.ecache.valid THEN w.ecache.map ELSE LiveExisting(w)

\* get_existing_playlists(sp, force_refresh): the world after the call
AfterExisting(w, force_refresh) ==
  IF ~force_refresh /\ w.ecache.valid THEN w
  ELSE [w EXCEPT !.ecache = [valid |-> TRUE, map |-> LiveExisting(w)],
                 !.reads = @ + 1]

\* get_playlist_tracks(sp, pid, force_refresh): the value returned
PlaylistTracks(w, pid, force_refresh) ==
  IF ~force_refresh /\ w.tcache[pid].has THEN w.tcache[pid].v ELSE LiveTracks(w, pid)

\* get_playlist_tracks(sp, pid, force_refresh): the world after the call
AfterPlaylistTracks(w, pid, force_refresh) ==
  IF ~force_refresh /\ w.tcache[pid].has THEN w
  ELSE [w EXCEPT !.tcache[pid] = [has |-> TRUE, v |-> LiveTracks(w, pid)],
                 !.reads = @ + 1]

\* _invalidate_playlist_cache()
InvalidatePlaylistCache(w) ==
  [w EXCEPT !.ecache = NoExisting, !.tcache = [p \in PIDs |-> NoCache]]

\* del _playlist_tracks_cache[pid]
DropTracksCache(w, pid) == [w EXCEPT !.tcache[pid] = NoCache]

Call(op, pid, uris) == [op |-> op, pid |-> pid, uris |-> uris]

\* a mutant of the add call: the membership is replaced by the URIs sent
ReplaceItems(w, pid, uris) ==
  [w EXCEPT !.pl[pid].tracks = SeqToSet(uris),
            !.pl[pid].snap = @ + 1,
            !.calls = Append(@, Call("add", pid, uris))]

\* sp.playlist_add_items(pid, uris)
AddItems(w, pid, uris) ==
  [w EXCEPT !.pl[pid].tracks = @ \cup SeqToSet(uris),
            !.pl[pid].snap = @ + 1,
            !.calls = Append(@, Call("add", pid, uris))]

RECURSIVE AddChunks(_, _, _)
\* for chunk in chunks: api_call(sp.playlist_add_items, pid, chunk)
AddChunks(w, pid, chunks) ==
  IF chunks = <<>> THEN w
  ELSE AddChunks(AddItems(w, pid, Head(chunks)), pid, Tail(chunks))

\* sp.user_playlist_create(user_id, name, public=False, description=...)
CreatePlaylist(w, name, description) ==
  [w EXCEPT !.pl[w.nextPid] = [live |-> TRUE, name |-> name, tracks |-> {},
                               desc |-> description, snap |-> 1],
            !.nextPid = @ + 1,
            !.calls = Append(@, Call("create", w.nextPid, <<>>))]

\* sp.user_playlist_change_details(user_id, pid, description=...)
ChangeDetails(w, pid, description) ==
  [w EXCEPT !.pl[pid].desc = description,
            !.pl[pid].snap = @ + 1,
            !.calls = Append(@, Call("describe", pid, <<>>))]

\* the remote delete of a playlist
DeletePlaylist(w, pid) ==
  [w EXCEPT !.pl[pid] = NoPlaylist,
            !.calls = Append(@, Call("delete", pid, <<>>))]

-----------------------------------------------------------------------------
(* Description synchronizer: _update_playlist_description_with_genres.     *)
(* track_uris is [given |-> BOOLEAN, list |-> sequence]; given = FALSE is  *)
(* the call with track_uris=None.                                          *)

NoUris == [given |-> FALSE, list |-> <<>>]
Uris(list) == [given |-> TRUE, list |-> list]

\* what .description_snapshot_cache.json can hold: no file, text that is
\* not JSON, JSON that is not an object (a list, a string, a number, null),
\* or a JSON object playlist id -> marker
CacheKinds == {"absent", "corrupt", "nonmap", "map"}

NoMarkers == [p \in PIDs |-> 0]

File(kind, markers) == [kind |-> kind, markers |-> markers]

NoSave == [pc |-> "idle", old |-> File("absent", NoMarkers), new |-> File("absent", NoMarkers)]

\* _load_snapshot_cache(): the markers of the value returned; {} when the
\* file is absent or json.load raises
LoadSnapshotCache(w) == IF w.dkind = "map" THEN w.dcache ELSE NoMarkers

\* _load_snapshot_cache() returns what json.load gave, which has no .get
LoadedNotMapping(w) == w.dkind = "nonmap"

\* snapshot_id and cache.get(playlist_id): the AttributeError that the
\* outer except Exception turns into return False
LookupRaises(w, pid) == w.pl[pid].snap # 0 /\ LoadedNotMapping(w)

\* a mutant of the skip test that compares nothing
SkipsNever(w, pid) == FALSE

\* snapshot_id and cache.get(playlist_id) == snapshot_id
SkipsUnchanged(w, pid) ==
  /\ w.pl[pid].snap # 0
  /\ ~LoadedNotMapping(w)
  /\ LoadSnapshotCache(w)[pid] = w.pl[pid].snap

\* cache = _load_snapshot_cache(); cache[playlist_id] = snapshot_id;
\* _save_snapshot_cache(cache), under if snapshot_id
SaveMarker(w, pid, snapshot_id) ==
  IF snapshot_id = 0 THEN w
  ELSE [w EXCEPT !.dcache = [LoadSnapshotCache(w) EXCEPT ![pid] = snapshot_id],
                 !.dkind = "map"]

\* the world after track_uris has been resolved
AfterResolveUris(w, pid, track_uris) ==
  IF track_uris.given THEN w ELSE AfterPlaylistTracks(w, pid, FALSE)

\* track_uris after it has been resolved
ResolvedUris(w, pid, track_uris) ==
  IF track_uris.given THEN track_uris.list
  ELSE SetToSeq(PlaylistTracks(w, pid, FALSE))

\* a mutant of the push test that lets an empty description through
PushesBlankToo(w, pid, track_uris) ==
  /\ w.pl[pid].live
  /\ ~LookupRaises(w, pid)
  /\ ~SkipsUnchanged(w, pid)
  /\ ResolvedUris(w, pid, track_uris) # <<>>
  /\ NewDescription(w.pl[pid].desc, w.pl[pid].name) # w.pl[pid].desc

\* whether the call pushes a new description
PushesDescription(w, pid, track_uris) ==
  /\ w.pl[pid].live
  /\ ~LookupRaises(w, pid)
  /\ ~SkipsUnchanged(w, pid)
  /\ ResolvedUris(w, pid, track_uris) # <<>>
  /\ Strip(NewDescription(w.pl[pid].desc, w.pl[pid].name)) # <<>>
  /\ NewDescription(w.pl[pid].desc, w.pl[pid].name) # w.pl[pid].desc

\* _update_playlist_description_with_genres: the world after the call
UpdateDescription(w, pid, track_uris) ==
  IF ~w.pl[pid].live THEN [w EXCEPT !.reads = @ + 1]
  ELSE
    LET w1 == [w EXCEPT !.reads = @ + 1]
        snapshot_id == w.pl[pid].snap
        current == w.pl[pid].desc
        new == NewDescription(current, w.pl[pid].name)
        w2 == AfterResolveUris(w1, pid, track_uris)
    IN IF LookupRaises(w, pid) THEN w1
       ELSE IF SkipsUnchanged(w, pid) THEN w1
       ELSE IF ResolvedUris(w1, pid, track_uris) = <<>> THEN w2
       ELSE IF Strip(new) = <<>> THEN w2
       ELSE IF new # current
            THEN SaveMarker(ChangeDetails(w2, pid, new), pid, snapshot_id)
            ELSE SaveMarker(w2, pid, snapshot_id)

\* what a call of sp.user_playlist_change_details inside the try block
\* ends in: it returns, it raises an exception that is not a
\* UnicodeEncodeError (the remote side answers with an error), or a
\* UnicodeEncodeError is raised before the request leaves
PushOutcomes == {"ok", "rejected", "encode_error"}

\* a mutant of the refused push that records the marker all the same
RejectedDetailsSaving(w, pid, snapshot_id) ==
  SaveMarker([w EXCEPT !.calls = Append(@, Call("describe_rejected", pid, <<>>))],
             pid, snapshot_id)

\* a call of sp.user_playlist_change_details the remote side refuses:
\* except Exception, return False
RejectedDetails(w, pid, snapshot_id) ==
  [w EXCEPT !.calls = Append(@, Call("describe_rejected", pid, <<>>))]

\* except UnicodeEncodeError: the description re-encoded with
\* errors="replace", cut to the maximum length and pushed again; return
\* True when the push returns, return False when it raises
RetryDetails(w, pid, new_description, snapshot_id, second) ==
  IF second = "ok"
  THEN ChangeDetails(w, pid, SliceTo(EncodeReplace(new_description),
                                     SpotifyMaxDescriptionLength))
  ELSE RejectedDetails(w, pid, snapshot_id)

\* the try block under if new_description != current_description, with
\* the outcome of the first call of the remote side and of the second
PushDetails(w, pid, new_description, snapshot_id, first, second) ==
  IF first = "ok"
  THEN SaveMarker(ChangeDetails(w, pid, new_description), pid, snapshot_id)
  ELSE IF first = "encode_error"
       THEN RetryDetails(w, pid, new_description, snapshot_id, second)
       ELSE RejectedDetails(w, pid, snapshot_id)

\* _update_playlist_description_with_genres: the world after the call when
\* the calls of the remote side end as first and second say
UpdateDescriptionWith(w, pid, track_uris, first, second) ==
  IF PushesDescription(w, pid, track_uris)
  THEN PushDetails(AfterResolveUris([w EXCEPT !.reads = @ + 1], pid, track_uris),
                   pid, NewDescription(w.pl[pid].desc, w.pl[pid].name),
                   w.pl[pid].snap, first, second)
  ELSE UpdateDescription(w, pid, track_uris)

\* the value _update_playlist_description_with_genres returns
ReturnsChanged(w, pid, track_uris, first, second) ==
  /\ PushesDescription(w, pid, track_uris)
  /\ \/ first = "ok"
     \/ first = "encode_error" /\ second = "ok"

-----------------------------------------------------------------------------
(* Safe deletion: safe_delete_playlist(sp, playlist_id, name,              *)
(* create_backup, verify_tracks_preserved_in).  verify_in = 0 is None.     *)

\* the world after the target's tracks are fetched and the backup written
AfterBackup(w, pid, create_backup) ==
  [w EXCEPT !.reads = @ + 1,
            !.backups = IF create_backup THEN @ \cup {pid} ELSE @]

\* a mutant of the verification that trusts the cached successor membership
VerifiedInCache(w, pid, verify_in) ==
  verify_in = 0 \/ LiveTracks(w, pid) \subseteq PlaylistTracks(w, verify_in, FALSE)

\* every track of the target is a member of the re-fetched successor
Verified(w, pid, verify_in) ==
  verify_in = 0 \/ LiveTracks(w, pid) \subseteq PlaylistTracks(w, verify_in, TRUE)

\* what the attempt is recorded as
Deletion(w, pid, create_backup, verify_in, step, done) ==
  [pid |-> pid, tracks |-> LiveTracks(w, pid), backup |-> create_backup,
   verify |-> verify_in,
   kept |-> IF verify_in = 0 THEN {} ELSE LiveTracks(w, verify_in),
   step |-> step, done |-> done]

\* safe_delete_playlist: success
SafeDeleteSuccess(w, pid, verify_in) == Verified(w, pid, verify_in)

\* safe_delete_playlist: the world after the call
SafeDelete(w, pid, create_backup, verify_in, step) ==
  LET w1 == AfterBackup(w, pid, create_backup)
      w2 == IF verify_in = 0 THEN w1 ELSE AfterPlaylistTracks(w1, verify_in, TRUE)
  IN IF Verified(w, pid, verify_in)
     THEN [DeletePlaylist(w2, pid) EXCEPT
             !.dels = Append(@, Deletion(w, pid, create_backup, verify_in, step, TRUE))]
     ELSE [w2 EXCEPT !.dels = Append(@, Deletion(w, pid, create_backup, verify_in, step, FALSE))]

\* success, backup_file = safe_delete_playlist(...);
\* if success: _invalidate_playlist_cache()
DeleteAndInvalidate(w, pid, verify_in, step) ==
  IF SafeDeleteSuccess(w, pid, verify_in)
  THEN InvalidatePlaylistCache(SafeDelete(w, pid, TRUE, verify_in, step))
  ELSE SafeDelete(w, pid, TRUE, verify_in, step)

-----------------------------------------------------------------------------
(* Snapshot data: the liked-songs rows and the streaming history.          *)

RECURSIVE MonthSeq(_)
\* sorted(months)
MonthSeq(S) ==
  IF S = {} THEN <<>>
  ELSE LET m == CHOOSE x \in S : \A y \in S : YmLeq(x, y)
       IN <<m>> \o MonthSeq(S \ {m})

\* all_month_to_tracks.get(m, {}).get("monthly", []): the liked rows of a month
LikedInMonth(month) == SetToSeq({t \in Tracks : liked[t] = month})

RECURSIVE Concat(_)
Concat(ss) == IF ss = <<>> THEN <<>> ELSE Head(ss) \o Concat(Tail(ss))

\* year_to_tracks[year]: the liked rows of the months of the year at or
\* before the cutoff, month by month, without duplicates
YearToTracks(year, cutoff) ==
  LET months == MonthSeq({liked[t] : t \in {u \in Tracks :
                    liked[u] # NotLiked /\ liked[u][1] = year /\ YmLeq(liked[u], cutoff)}})
  IN Dedup(Concat([i \in 1..Len(months) |-> LikedInMonth(months[i])]), {})

\* get_liked_song_uris(sp)
LikedSongUris == SetToSeq({t \in Tracks : liked[t] # NotLiked})

RECURSIVE SortByPlays(_, _)
\* stable sort of a set of tracks by play count, most played first
SortByPlays(S, count) ==
  IF S = {} THEN <<>>
  ELSE LET t == CHOOSE x \in S : \A y \in S :
                   count[x] > count[y] \/ (count[x] = count[y] /\ x <= y)
       IN <<t>> \o SortByPlays(S \ {t}, count)

\* get_most_played_tracks(year_data, None, limit=100)
MostPlayedTracks == SortByPlays({t \in Tracks : plays[t] > 0}, plays)

RECURSIVE Descending(_)
Descending(S) ==
  IF S = {} THEN <<>>
  ELSE LET t == CHOOSE x \in S : \A y \in S : x >= y
       IN <<t>> \o Descending(S \ {t})

\* get_discovery_tracks(year_data, None, limit=100): the tracks first played
\* in the year, most recent first (a track with a larger id was first played
\* later)
DiscoveryTracks == Descending({t \in Tracks : plays[t] > 0})

\* [u for u in track_uris if u not in already]
NotIn(track_uris, already) == SelectSeq(track_uris, LAMBDA u : u \notin already)

\* the record of an additive update of an existing playlist
Update(w, pid, desired, sent) ==
  [pid |-> pid, live |-> LiveTracks(w, pid), desired |-> desired, sent |-> sent]

\* the world after a playlist could not be created: no playlist id is left
Full(w) == [w EXCEPT !.full = TRUE]

\* format_playlist_description(description, period=...)
FormattedDescription == <<"templ">>

-----------------------------------------------------------------------------
(* update_monthly_playlists(sp, keep_last_n_months)                        *)

\* the existing-playlist branch of the loop body
MonthlyExisting(w, pid, track_uris) ==
  LET already == PlaylistTracks(w, pid, FALSE)
      w1 == AfterPlaylistTracks(w, pid, FALSE)
      to_add == NotIn(track_uris, already)
      w2 == IF to_add # <<>>
            THEN DropTracksCache(AddChunks(w1, pid, Chunked(to_add)), pid)
            ELSE w1
      w3 == [w2 EXCEPT !.updates = Append(@, Update(w, pid, track_uris, to_add))]
  IN UpdateDescription(w3, pid, Uris(track_uris))

\* the create branch of the loop body
MonthlyCreate(w, name, track_uris) ==
  IF w.nextPid > MaxPid THEN Full(w)
  ELSE LET pid == w.nextPid
           w1 == CreatePlaylist(w, name, FormattedDescription)
           w2 == AddChunks(w1, pid, Chunked(track_uris))
           w3 == UpdateDescription(w2, pid, Uris(track_uris))
       IN InvalidatePlaylistCache(w3)

RECURSIVE MonthlyLoop(_, _, _)
\* for month in sorted(recent_months)
MonthlyLoop(w, existing, months) ==
  IF months = <<>> \/ w.full THEN w
  ELSE LET month == Head(months)
           track_uris == LikedInMonth(month)
           name == MonthlyName("monthly", month)
           w1 == IF name \in DOMAIN existing
                 THEN MonthlyExisting(w, existing[name], track_uris)
                 ELSE MonthlyCreate(w, name, track_uris)
       IN MonthlyLoop(w1, existing, Tail(months))

\* update_monthly_playlists: the world after the call
UpdateMonthlyPlaylists(w, keep_last_n_months) ==
  LET recent_months == MonthSeq(RecentMonths(Now, keep_last_n_months))
  IN IF recent_months = <<>> THEN w
     ELSE MonthlyLoop(AfterExisting(w, FALSE), Existing(w, FALSE), recent_months)

-----------------------------------------------------------------------------
(* update_current_year_playlists(sp)                                       *)

\* the existing-playlist branch: add what the cached membership lacks
YearExisting(w, pid, uris) ==
  LET already == PlaylistTracks(w, pid, FALSE)
      w1 == AfterPlaylistTracks(w, pid, FALSE)
      to_add == NotIn(uris, already)
      w2 == IF to_add # <<>>
            THEN InvalidatePlaylistCache(AddChunks(w1, pid, Chunked(to_add)))
            ELSE w1
  IN [w2 EXCEPT !.updates = Append(@, Update(w, pid, uris, to_add))]

\* the create branch
YearCreate(w, name, uris) ==
  IF w.nextPid > MaxPid THEN Full(w)
  ELSE LET pid == w.nextPid
           w1 == CreatePlaylist(w, name, FormattedDescription)
           w2 == AddChunks(w1, pid, Chunked(uris))
           w3 == UpdateDescription(w2, pid, Uris(uris))
       IN InvalidatePlaylistCache(w3)

\* the Finds playlist of the current year
CurrentYearFinds(w, existing) ==
  LET finds_name == YearlyName("monthly", Now[1])
  IN IF finds_name \in DOMAIN existing
     THEN YearExisting(w, existing[finds_name], LikedSongUris)
     ELSE YearCreate(w, finds_name, LikedSongUris)

\* the Top or Discovery playlist of the current year
CurrentYearRanked(w, existing, ptype, uris) ==
  LET name == YearlyName(ptype, Now[1])
  IN IF w.full \/ uris = <<>> THEN w
     ELSE IF name \in DOMAIN existing
          THEN YearExisting(w, existing[name], uris)
          ELSE YearCreate(w, name, uris)

\* update_current_year_playlists: the world after the call
UpdateCurrentYearPlaylists(w) ==
  LET existing == Existing(w, FALSE)
      w1 == CurrentYearFinds(AfterExisting(w, FALSE), existing)
      w2 == CurrentYearRanked(w1, existing, "most_played", MostPlayedTracks)
  IN CurrentYearRanked(w2, existing, "discovery", DiscoveryTracks)

-----------------------------------------------------------------------------
(* consolidate_old_monthly_playlists(sp, keep_last_n_months)               *)

PlaylistTypes == {"monthly", "most_played", "discovery"}

\* monthly_playlists[year][playlist_type]: the ids of the playlists of
\* `existing` whose name parses as a month of the year at or before the cutoff
MonthlyPlaylists(existing, cutoff, year, ptype) ==
  SetToSeq({existing[n] : n \in {m \in DOMAIN existing :
               /\ IsRolledOff(m, cutoff)
               /\ m.ptype = ptype
               /\ ParsedMonth(m)[1] = year}})

\* year in monthly_playlists
YearHasMonthly(existing, cutoff, year) ==
  \E ptype \in PlaylistTypes : MonthlyPlaylists(existing, cutoff, year, ptype) # <<>>

\* year_to_tracks_history[year][playlist_type]
YearToTracksHistory(year, ptype) ==
  IF year # Now[1] THEN <<>>
  ELSE IF ptype = "most_played" THEN MostPlayedTracks
  ELSE IF ptype = "discovery" THEN DiscoveryTracks
  ELSE <<>>

\* all_years
AllYears(existing, cutoff) ==
  {ParsedMonth(n)[1] : n \in {m \in DOMAIN existing :
       IsRolledOff(m, cutoff) /\ m.ptype \in PlaylistTypes}}
  \cup {liked[t][1] : t \in {u \in Tracks : liked[u] # NotLiked /\ YmLeq(liked[u], cutoff)}}
  \cup {y \in {Now[1]} : \E t \in Tracks : plays[t] > 0}

\* a mutant of needs_consolidation that looks at the monthly playlists only
NeedsConsolidationMonthlyOnly(existing, cutoff, year) ==
  YearHasMonthly(existing, cutoff, year)

\* needs_consolidation
NeedsConsolidation(existing, cutoff, year) ==
  \/ YearHasMonthly(existing, cutoff, year)
  \/ \E ptype \in {"most_played", "discovery"} :
       /\ YearToTracksHistory(year, ptype) # <<>>
       /\ YearlyName(ptype, year) \notin DOMAIN existing
  \/ /\ YearToTracks(year, cutoff) # <<>>
     /\ YearlyName("monthly", year) \notin DOMAIN existing

RECURSIVE GatherMonthly(_, _, _)
\* the tracks of the monthly playlists, playlist by playlist, without
\* duplicates: <<the list, the world after the reads>>
GatherMonthly(w, pids, acc) ==
  IF pids = <<>> THEN <<acc, w>>
  ELSE LET tracks == SetToSeq(PlaylistTracks(w, Head(pids), FALSE))
       IN GatherMonthly(AfterPlaylistTracks(w, Head(pids), FALSE), Tail(pids),
                        acc \o Dedup(tracks, SeqToSet(acc)))

\* all_tracks_list before the re-sort: the monthly playlists' tracks, or,
\* when there are none, the liked-songs or streaming-history data
Fallback(from_monthly, year, ptype, cutoff) ==
  IF from_monthly # <<>> THEN from_monthly
  ELSE IF ptype = "monthly" THEN YearToTracks(year, cutoff)
  ELSE YearToTracksHistory(year, ptype)

RECURSIVE InsertByPlaysUnstable(_, _)
\* a mutant of the insertion that puts a track before the tracks of equal
\* play count
InsertByPlaysUnstable(sorted, t) ==
  IF sorted = <<>> THEN <<t>>
  ELSE IF plays[Head(sorted)] > plays[t]
       THEN <<Head(sorted)>> \o InsertByPlaysUnstable(Tail(sorted), t)
       ELSE <<t>> \o sorted

RECURSIVE InsertByPlays(_, _)
\* the list with track t put behind the tracks that have at least as many
\* plays: one step of the stable sort
InsertByPlays(sorted, t) ==
  IF sorted = <<>> THEN <<t>>
  ELSE IF plays[Head(sorted)] >= plays[t] THEN <<Head(sorted)>> \o InsertByPlays(Tail(sorted), t)
  ELSE <<t>> \o sorted

RECURSIVE StableSortByPlays(_, _)
\* all_tracks_list.sort(key=play count, reverse=True)
StableSortByPlays(list, sorted) ==
  IF list = <<>> THEN sorted
  ELSE StableSortByPlays(Tail(list), InsertByPlays(sorted, Head(list)))

\* a mutant of the re-sort that sorts the list of every type and source
ResortedAlways(list, year, ptype, tracks_from_monthly) ==
  IF list # <<>> /\ year = Now[1] THEN StableSortByPlays(list, <<>>) ELSE list

\* all_tracks_list after the re-sort
Resorted(list, year, ptype, tracks_from_monthly) ==
  IF /\ list # <<>>
     /\ ptype = "most_played"
     /\ tracks_from_monthly
     /\ year = Now[1]
     /\ \E t \in Tracks : plays[t] > 0
  THEN StableSortByPlays(list, <<>>)
  ELSE list

\* what the two forced re-fetches gave, and whether the warning was logged
Check(monthly_id, pid, monthly_tracks, final_yearly_tracks, warned) ==
  [monthly |-> monthly_id, yearly |-> pid, monthly_tracks |-> monthly_tracks,
   yearly_tracks |-> final_yearly_tracks, warned |-> warned]

\* a mutant of the loop body: no re-fetch comparison, and the deletion is
\* asked for without a successor to verify against
DeleteUnverified(w, monthly_id, pid, final_yearly_tracks) ==
  DeleteAndInvalidate(w, monthly_id, 0, "consolidate")

\* the body of the deletion loop for one monthly playlist:
\* missing_tracks = monthly_tracks - final_yearly_tracks;
\* if missing_tracks: log a warning; continue
CheckAndDelete(w, monthly_id, pid, final_yearly_tracks) ==
  IF PlaylistTracks(w, monthly_id, TRUE) \ final_yearly_tracks # {}
  THEN [AfterPlaylistTracks(w, monthly_id, TRUE) EXCEPT
          !.checks = Append(@, Check(monthly_id, pid, PlaylistTracks(w, monthly_id, TRUE),
                                     final_yearly_tracks, TRUE))]
  ELSE DeleteAndInvalidate(
         [AfterPlaylistTracks(w, monthly_id, TRUE) EXCEPT
            !.checks = Append(@, Check(monthly_id, pid, PlaylistTracks(w, monthly_id, TRUE),
                                       final_yearly_tracks, FALSE))],
         monthly_id, pid, "consolidate")

RECURSIVE DeleteMonthlyUntilMissing(_, _, _, _)
\* a mutant of the deletion loop: break at the first warning
DeleteMonthlyUntilMissing(w, pids, pid, final_yearly_tracks) ==
  IF pids = <<>> THEN w
  ELSE IF PlaylistTracks(w, Head(pids), TRUE) \ final_yearly_tracks # {}
  THEN CheckAndDelete(w, Head(pids), pid, final_yearly_tracks)
  ELSE DeleteMonthlyUntilMissing(CheckAndDelete(w, Head(pids), pid, final_yearly_tracks),
                                 Tail(pids), pid, final_yearly_tracks)

RECURSIVE DeleteMonthly(_, _, _, _)
\* the deletion of the monthly playlists after the yearly one is filled
DeleteMonthly(w, pids, pid, final_yearly_tracks) ==
  IF pids = <<>> THEN w
  ELSE DeleteMonthly(CheckAndDelete(w, Head(pids), pid, final_yearly_tracks),
                     Tail(pids), pid, final_yearly_tracks)

\* the deletion section for the yearly playlist pid
AfterYearly(w, pids, pid) ==
  IF pids = <<>> THEN w
  ELSE DeleteMonthly(AfterPlaylistTracks(w, pid, TRUE), pids, pid,
                     PlaylistTracks(w, pid, TRUE))

\* the existing-playlist branch
YearlyExisting(w, pid, filtered_tracks) ==
  LET already == PlaylistTracks(w, pid, FALSE)
      w1 == AfterPlaylistTracks(w, pid, FALSE)
      to_add == NotIn(filtered_tracks, already)
      w2 == AddChunks(w1, pid, Chunked(to_add))
      w3 == [w2 EXCEPT !.updates = Append(@, Update(w, pid, filtered_tracks, to_add))]
  IN UpdateDescription(w3, pid, NoUris)

\* the create branch
YearlyCreate(w, name, filtered_tracks) ==
  LET w1 == CreatePlaylist(w, name, FormattedDescription)
      w2 == AddChunks(w1, w.nextPid, Chunked(filtered_tracks))
  IN UpdateDescription(w2, w.nextPid, Uris(filtered_tracks))

\* the loop body for one year and one playlist type
ConsolidateType(w, existing, cutoff, year, ptype) ==
  LET pids == MonthlyPlaylists(existing, cutoff, year, ptype)
      gathered == GatherMonthly(w, pids, <<>>)
      w1 == gathered[2]
      all_tracks_list == Resorted(Fallback(gathered[1], year, ptype, cutoff),
                                  year, ptype, pids # <<>>)
      name == YearlyName(ptype, year)
  IN IF all_tracks_list = <<>> THEN w1
     ELSE IF name \in DOMAIN existing
          THEN IF ~YearHasMonthly(existing, cutoff, year) THEN w1
               ELSE AfterYearly(YearlyExisting(w1, existing[name], all_tracks_list),
                                pids, existing[name])
          ELSE IF w1.nextPid > MaxPid THEN Full(w1)
               ELSE AfterYearly(YearlyCreate(w1, name, all_tracks_list),
                                pids, w1.nextPid)

\* playlist_types, in the order of the loop
PlaylistTypeOrder == <<"monthly", "most_played", "discovery">>

RECURSIVE ConsolidateTypes(_, _, _, _, _)
\* for playlist_type in playlist_types
ConsolidateTypes(w, existing, cutoff, year, ptypes) ==
  IF ptypes = <<>> \/ w.full THEN w
  ELSE ConsolidateTypes(ConsolidateType(w, existing, cutoff, year, Head(ptypes)),
                        existing, cutoff, year, Tail(ptypes))

RECURSIVE ConsolidateYears(_, _, _, _)
\* for year in sorted(years_to_consolidate)
ConsolidateYears(w, existing, cutoff, years) ==
  IF years = <<>> \/ w.full THEN w
  ELSE ConsolidateYears(ConsolidateTypes(w, existing, cutoff, Head(years), PlaylistTypeOrder),
                        existing, cutoff, Tail(years))

\* years_to_consolidate
YearsToConsolidate(w, keep_last_n_months) ==
  {y \in AllYears(Existing(w, FALSE), CutoffYearMonth(Now, keep_last_n_months)) :
     NeedsConsolidation(Existing(w, FALSE), CutoffYearMonth(Now, keep_last_n_months), y)}

\* consolidate_old_monthly_playlists: the world after the call
ConsolidateOldMonthlyPlaylists(w, keep_last_n_months) ==
  ConsolidateYears(AfterExisting(w, FALSE), Existing(w, FALSE),
                   CutoffYearMonth(Now, keep_last_n_months),
                   SetToSeq(YearsToConsolidate(w, keep_last_n_months)))

-----------------------------------------------------------------------------
(* delete_automated_monthly_and_genre_playlists(sp)                        *)

\* _is_automated_monthly_playlist(name, owner, prefixes, month_abbrs)
IsAutomatedMonthlyPlaylist(name) ==
  name.kind = "month" /\ name.ptype \in PlaylistTypes

\* _is_automated_genre_playlist(name, owner)
IsAutomatedGenrePlaylist(name) == name.kind = "genre"

\* to_delete: the owner's playlists that are not yearly ones and look automated
ToDelete(existing) ==
  SetToSeq({existing[n] : n \in {m \in DOMAIN existing :
              /\ m.kind # "year"
              /\ IsAutomatedMonthlyPlaylist(m) \/ IsAutomatedGenrePlaylist(m)}})

RECURSIVE DeleteAll(_, _)
\* for playlist_name, playlist_id in to_delete
DeleteAll(w, pids) ==
  IF pids = <<>> THEN w
  ELSE DeleteAll(DeleteAndInvalidate(w, Head(pids), 0, "delete_monthly_and_genre"),
                 Tail(pids))

\* delete_automated_monthly_and_genre_playlists: the world after the call
DeleteAutomatedMonthlyAndGenrePlaylists(w) ==
  DeleteAll(AfterExisting(w, TRUE), ToDelete(Existing(w, TRUE)))

-----------------------------------------------------------------------------
(* delete_duplicate_playlists(sp)                                          *)

\* the rank of a month abbreviation among the twelve, alphabetically
MonthAbbrRank(mon) ==
  CASE mon = 4 -> 1 [] mon = 8 -> 2 [] mon = 12 -> 3 [] mon = 2 -> 4
    [] mon = 1 -> 5 [] mon = 7 -> 6 [] mon = 6 -> 7 [] mon = 3 -> 8
    [] mon = 5 -> 9 [] mon = 11 -> 10 [] mon = 10 -> 11 [] mon = 9 -> 12
    [] OTHER -> 0

\* the rank of the text before the date: "AJAm..." < "AJDiscovery" <
\* "AJFinds" < "AJTop" < any name that does not start with the owner's
PrefixRank(name) ==
  CASE name.kind = "genre" -> 0
    [] name.kind = "user" -> 4
    [] name.ptype = "discovery" -> 1
    [] name.ptype = "monthly" -> 2
    [] OTHER -> 3

\* sorted(playlists, key=lambda x: x[0]): whether name a sorts before name b
NameLess(a, b) ==
  LET ka == <<PrefixRank(a), MonthAbbrRank(a.mon), a.yy>>
      kb == <<PrefixRank(b), MonthAbbrRank(b.mon), b.yy>>
  IN \/ ka[1] < kb[1]
     \/ ka[1] = kb[1] /\ ka[2] < kb[2]
     \/ ka[1] = kb[1] /\ ka[2] = kb[2] /\ ka[3] < kb[3]

RECURSIVE ReadAll(_, _)
\* the world after the track set of every playlist is read through the cache
ReadAll(w, pids) ==
  IF pids = <<>> THEN w
  ELSE ReadAll(AfterPlaylistTracks(w, Head(pids), FALSE), Tail(pids))

\* keep_playlist of the group of playlists with the track set of pid;
\* 0 when pid's group is not a set of duplicates
KeepPlaylist(w, existing, pid) ==
  LET ids == {existing[n] : n \in DOMAIN existing}
      track_set == PlaylistTracks(w, pid, FALSE)
      group == {q \in ids : PlaylistTracks(w, q, FALSE) = track_set}
  IN IF Cardinality(group) > 1 /\ track_set # {}
     THEN CHOOSE q \in group :
            \A r \in group \ {q} : NameLess(w.pl[q].name, w.pl[r].name)
     ELSE 0

RECURSIVE DeleteDuplicates(_, _, _)
\* for dup_name, dup_id in duplicates; keep maps a playlist id to the kept
\* copy of its group
DeleteDuplicates(w, pids, keep) ==
  IF pids = <<>> THEN w
  ELSE LET dup_id == Head(pids)
           w1 == IF keep[dup_id] = 0 \/ keep[dup_id] = dup_id THEN w
                 ELSE DeleteAndInvalidate(w, dup_id, keep[dup_id], "delete_duplicates")
       IN DeleteDuplicates(w1, Tail(pids), keep)

\* delete_duplicate_playlists: the world after the call
DeleteDuplicatePlaylists(w) ==
  LET existing == Existing(w, TRUE)
      ids == {existing[n] : n \in DOMAIN existing}
      keep == [p \in ids |-> KeepPlaylist(w, existing, p)]
  IN DeleteDuplicates(ReadAll(AfterExisting(w, TRUE), SetToSeq(ids)), SetToSeq(ids), keep)

-----------------------------------------------------------------------------
(* The descriptions step of main(): every owned playlist of the playlists  *)
(* table gets _update_playlist_description_with_genres(sp, user, pid, None)*)

RECURSIVE DescribeAll(_, _)
DescribeAll(w, pids) ==
  IF pids = <<>> THEN w
  ELSE DescribeAll(UpdateDescription(w, Head(pids), NoUris), Tail(pids))

\* the descriptions step: the world after it
DescriptionsStep(w) == DescribeAll(w, SetToSeq({p \in PIDs : w.pl[p].live}))

-----------------------------------------------------------------------------
(* main(): the --steps argument, the step list and the exception handlers  *)
(* around the steps.  A piece of --steps is what stands between two commas *)
(* as typed: the name it spells once stripped and lower-cased, whether it  *)
(* is typed with capitals, and whether it is typed with blanks around it.  *)

\* SYNC_STEP_IDS
SyncStepIds ==
  <<"sync", "rename", "delete_monthly_and_genre", "consolidate",
    "update_current_year", "descriptions", "health_check", "insights_report">>

Piece(name, upper, padded) == [name |-> name, upper |-> upper, padded |-> padded]

\* the piece that is exactly the string name
Plain(name) == Piece(name, FALSE, FALSE)

\* s.strip()
StripPiece(p) == [p EXCEPT !.padded = FALSE]

\* s.lower()
LowerPiece(p) == [p EXCEPT !.upper = FALSE]

\* a mutant of the normalisation that keeps the capitals
StripOnly(p) == StripPiece(p)

\* s.strip().lower()
NormalPiece(p) == LowerPiece(StripPiece(p))

\* if s.strip(): the piece is not blank
NonBlank(p) == StripPiece(p).name # ""

\* --steps: not given (None), or the pieces of the string
NoStepsArg == [given |-> FALSE, pieces |-> <<>>]
StepsArg(pieces) == [given |-> TRUE, pieces |-> pieces]

\* the value of parse_steps: None, or a list of step ids
NoneSteps == [is_none |-> TRUE, list |-> <<>>]
StepList(list) == [is_none |-> FALSE, list |-> list]

RECURSIVE Requested(_)
\* requested = [s.strip().lower() for s in str(steps_str).split(",") if s.strip()]
Requested(pieces) ==
  IF pieces = <<>> THEN <<>>
  ELSE (IF NonBlank(Head(pieces)) THEN <<NormalPiece(Head(pieces))>> ELSE <<>>)
       \o Requested(Tail(pieces))

RECURSIVE InRequestOrder(_)
\* a mutant of the selection: the known names in the order typed
InRequestOrder(requested) ==
  IF requested = <<>> THEN <<>>
  ELSE (IF \E i \in DOMAIN SyncStepIds : Plain(SyncStepIds[i]) = Head(requested)
        THEN <<Head(requested).name>> ELSE <<>>)
       \o InRequestOrder(Tail(requested))

RECURSIVE KnownOf(_, _)
KnownOf(ids, requested) ==
  IF ids = <<>> THEN <<>>
  ELSE (IF Plain(Head(ids)) \in SeqToSet(requested) THEN <<Head(ids)>> ELSE <<>>)
       \o KnownOf(Tail(ids), requested)

\* valid = [s for s in SYNC_STEP_IDS if s in requested]
Valid(requested) == KnownOf(SyncStepIds, requested)

\* a mutant of the last line of parse_steps: nothing valid gives None
NoneWhenNothingValid(valid, requested) ==
  IF valid # <<>> THEN StepList(valid) ELSE NoneSteps

\* return valid if valid else [] if requested else None
ValidOrEmptyOrNone(valid, requested) ==
  IF valid # <<>> THEN StepList(valid)
  ELSE IF requested # <<>> THEN StepList(<<>>)
  ELSE NoneSteps

\* not steps_str or not str(steps_str).strip(): None, "" or a blank string
NoStepsText(steps_str) ==
  \/ ~steps_str.given
  \/ Len(steps_str.pieces) = 1 /\ ~NonBlank(steps_str.pieces[1])

\* parse_steps(steps_str)
ParseSteps(steps_str) ==
  IF NoStepsText(steps_str) THEN NoneSteps
  ELSE ValidOrEmptyOrNone(Valid(Requested(steps_str.pieces)),
                          Requested(steps_str.pieces))

RECURSIVE UnknownOf(_)
UnknownOf(requested) ==
  IF requested = <<>> THEN <<>>
  ELSE (IF \E i \in DOMAIN SyncStepIds : Plain(SyncStepIds[i]) = Head(requested)
        THEN <<>> ELSE <<Head(requested)>>)
       \o UnknownOf(Tail(requested))

\* requested_unknown_steps(steps_str)
RequestedUnknownSteps(steps_str) ==
  IF NoStepsText(steps_str) THEN <<>>
  ELSE UnknownOf(Requested(steps_str.pieces))

\* the steps main() runs when parse_steps gives None
DefaultSteps(a) ==
  (IF ~a.skip_sync THEN <<"sync">> ELSE <<>>)
  \o (IF a.sync_only THEN <<>>
      ELSE <<"rename", "delete_monthly_and_genre", "consolidate",
             "update_current_year", "descriptions">>
           \o (IF a.health_check THEN <<"health_check">> ELSE <<>>)
           \o (IF a.insights_report THEN <<"insights_report">> ELSE <<>>))

\* steps_to_run of main()
StepsToRun(a) ==
  IF ParseSteps(a.steps).is_none THEN DefaultSteps(a) ELSE ParseSteps(a.steps).list

\* unknown = requested_unknown_steps(steps_arg) if steps_arg else []
UnknownWarned(a) == IF a.steps.given THEN RequestedUnknownSteps(a.steps) ELSE <<>>

\* what can be raised inside a step: "error" is an Exception,
\* "interrupt" is a KeyboardInterrupt
Raisable == {"error", "interrupt"}

Clause(catches, reraises) == [catches |-> catches, reraises |-> reraises]

\* a mutant of except Exception: a clause that catches everything
ExceptEverything == Clause(Raisable, FALSE)

\* except Exception [as e]: log, then return or go on
ExceptException == Clause({"error"}, FALSE)

\* except KeyboardInterrupt: log; raise
ExceptInterruptRaise == Clause({"interrupt"}, TRUE)

\* @handle_errors(reraise=..., default_return=..., log_error=True)
HandleErrors(reraise) == Clause({"error"}, reraise)

\* a try statement is the sequence of its except clauses; the first clause
\* that catches the exception handles it
Catching(exc, try) == {i \in DOMAIN try : exc \in try[i].catches}

Swallows(exc, try) ==
  Catching(exc, try) # {} /\ ~try[Min(Catching(exc, try))].reraises

RECURSIVE Escapes(_, _)
\* the exception leaves the nested try statements, innermost first
Escapes(exc, trys) ==
  IF trys = <<>> THEN TRUE
  ELSE IF Swallows(exc, Head(trys)) THEN FALSE
  ELSE Escapes(exc, Tail(trys))

\* a mutant of the handler of sync_full_library: log and raise again
SyncTryReraises == <<Clause({"error"}, TRUE)>>

\* sync_full_library: try ... except Exception: log; return False
SyncTry == <<ExceptException>>

\* the try statements around the places of a step where a remote call or
\* a file read can raise, innermost first, up to the call in main()
Places(step_id) ==
  CASE step_id = "sync" ->
         {<<SyncTry, <<HandleErrors(TRUE)>>>>,
          <<<<ExceptException>>, <<ExceptInterruptRaise, ExceptException>>,
            SyncTry, <<HandleErrors(TRUE)>>>>}
    [] step_id = "rename" ->
         {<<>>, <<<<HandleErrors(FALSE)>>>>}
    [] step_id \in {"delete_monthly_and_genre", "consolidate"} ->
         {<<<<HandleErrors(FALSE)>>>>,
          <<<<ExceptException>>, <<HandleErrors(FALSE)>>>>}
    [] step_id = "update_current_year" ->
         {<<<<HandleErrors(FALSE)>>>>}
    [] step_id = "descriptions" ->
         {<<<<ExceptException>>>>,
          <<<<ExceptException>>, <<ExceptException>>>>}
    [] OTHER ->
         {<<<<ExceptException>>>>}

\* the try statement around the step loop of main()
TopLevelTry == <<ExceptException>>

\* a mutant of the finally clause: the exit is forgotten
ExitZero(success) == 0

\* finally: if not success: sys.exit(1)
ExitStatus(success) == IF success THEN 0 ELSE 1

NoArgs ==
  [steps |-> NoStepsArg, skip_sync |-> FALSE, sync_only |-> FALSE, force |-> FALSE,
   health_check |-> FALSE, insights_report |-> FALSE]

\* exit = -1: the process is running
NoRun ==
  [pc |-> "idle", steps_to_run |-> <<>>, pos |-> 1, started |-> <<>>,
   outcomes |-> <<>>, raised |-> <<>>, warned |-> <<>>, sync_completed |-> "unset",
   auth |-> "none", error |-> "none",
   success |-> FALSE, complete |-> FALSE, exit |-> -1]

NoSkips == [sync |-> {}, descriptions |-> {}]

\* no run of main() is modelled
CliIdle ==
  /\ args = NoArgs
  /\ run = NoRun
  /\ synced = NoMarkers
  /\ skips = NoSkips

-----------------------------------------------------------------------------
(* The pipeline specification: liked songs and play counts are drawn, the  *)
(* remote library starts empty; processes run the operations in step       *)
(* order, and between operations the user edits the library or the         *)
(* snapshot data changes.                                                  *)

LikedMonths == {<<2024, 1>>, <<2024, 11>>}
DescChoices == {<<"name", "sp", "lp", "a", "rp">>, <<"a", "zw", "cm">>, <<"a">>}

Op(op, keep) == [op |-> op, keep |-> keep]

\* the month window run is not started
MonthIdle ==
  /\ mNow = <<FirstYear, 1>>
  /\ mKeep = 0
  /\ mRecent = {}
  /\ mRolled = {}
  /\ mPc = {}

\* the sanitizer run is not started
SanIdle ==
  /\ sanIn = <<>>
  /\ sanMax = 0
  /\ sanOut = <<>>
  /\ sanOut2 = <<>>
  /\ sanPc = "init"

\* no remote call has been logged
LogIdle ==
  /\ calls = <<>>
  /\ reads = 0
  /\ updates = <<>>
  /\ dels = <<>>
  /\ backups = {}
  /\ checks = <<>>
  /\ result = "none"

\* the pipeline is not started: an empty library, no data, no process
MainIdle ==
  /\ pl = [p \in PIDs |-> NoPlaylist]
  /\ nextPid = 1
  /\ liked = [t \in Tracks |-> NotLiked]
  /\ plays = [t \in Tracks |-> 0]
  /\ tcache = [p \in PIDs |-> NoCache]
  /\ ecache = NoExisting
  /\ dcache = [p \in PIDs |-> 0]
  /\ dkind = "absent"
  /\ save = NoSave
  /\ CliIdle
  /\ stepIdx = 0
  /\ userActs = 0
  /\ lastOp = NoOp
  /\ opCount = 0
  /\ procs = 1
  /\ LogIdle

Init ==
  /\ pl = [p \in PIDs |-> NoPlaylist]
  /\ nextPid = 1
  /\ liked \in [Tracks -> LikedMonths \cup {NotLiked}]
  /\ plays \in {f \in [Tracks -> 0..MaxPlays] : \A t \in Tracks \ {1} : f[t] = 0}
  /\ tcache = [p \in PIDs |-> NoCache]
  /\ ecache = NoExisting
  /\ dcache = [p \in PIDs |-> 0]
  /\ dkind = "absent"
  /\ save = NoSave
  /\ CliIdle
  /\ stepIdx = 0
  /\ userActs = 0
  /\ lastOp = NoOp
  /\ opCount = 0
  /\ procs = 1
  /\ LogIdle
  /\ SanIdle
  /\ MonthIdle

\* the variables after an operation that leaves the world w
Becomes(w, op, idx) ==
  /\ ~w.full
  /\ opCount < MaxOps
  /\ opCount' = opCount + 1
  /\ pl' = w.pl
  /\ nextPid' = w.nextPid
  /\ tcache' = w.tcache
  /\ ecache' = w.ecache
  /\ dcache' = w.dcache
  /\ dkind' = w.dkind
  /\ calls' = w.calls
  /\ reads' = w.reads
  /\ updates' = w.updates
  /\ dels' = w.dels
  /\ backups' = w.backups
  /\ checks' = w.checks
  /\ result' = "none"
  /\ stepIdx' = idx
  /\ lastOp' = op
  /\ UNCHANGED <<liked, plays, userActs, procs, fileVars, cliVars, sanVars, monthVars>>

\* a caller runs update_monthly_playlists(sp, n)
UpdateMonthly ==
  /\ stepIdx <= 1
  /\ \E n \in 0..MaxKeepMain :
       Becomes(UpdateMonthlyPlaylists(World, n), Op("update_monthly", n), 1)

\* step delete_monthly_and_genre of main()
DeleteAutomated ==
  /\ stepIdx < 2
  /\ Becomes(DeleteAutomatedMonthlyAndGenrePlaylists(World),
             Op("delete_monthly_and_genre", 0), 2)

\* step consolidate of main(): keep_last_n_months=0; other callers pass n
Consolidate ==
  /\ stepIdx < 3
  /\ \E n \in 0..MaxKeepMain :
       Becomes(ConsolidateOldMonthlyPlaylists(World, n), Op("consolidate", n), 3)

\* step update_current_year of main()
UpdateCurrentYear ==
  /\ stepIdx < 4
  /\ Becomes(UpdateCurrentYearPlaylists(World), Op("update_current_year", 0), 4)

\* step descriptions of main()
Descriptions ==
  /\ stepIdx < 5
  /\ Becomes(DescriptionsStep(World), Op("descriptions", 0), 5)

\* the process ends and a new one starts: the in-memory caches are empty
NewProcess ==
  /\ stepIdx # 0
  /\ procs < MaxProcs
  /\ procs' = procs + 1
  /\ stepIdx' = 0
  /\ tcache' = [p \in PIDs |-> NoCache]
  /\ ecache' = NoExisting
  /\ UNCHANGED <<remoteVars, dcache, dkind, userActs, lastOp, opCount, logVars, fileVars,
                 cliVars, sanVars, monthVars>>

\* what every change made outside the program does to the bookkeeping
Outside ==
  /\ userActs < MaxUserActs
  /\ userActs' = userActs + 1
  /\ opCount < MaxOps
  /\ opCount' = opCount + 1
  /\ lastOp' = Op("outside", 0)
  /\ calls' = <<>>
  /\ reads' = 0
  /\ updates' = <<>>
  /\ dels' = <<>>
  /\ backups' = {}
  /\ checks' = <<>>
  /\ result' = "none"
  /\ UNCHANGED <<nextPid, cacheVars, stepIdx, procs, fileVars, cliVars, sanVars, monthVars>>

\* the user adds a track to a playlist in the Spotify client
UserAddsTrack ==
  /\ Outside
  /\ \E p \in PIDs, t \in Tracks :
       /\ pl[p].live
       /\ t \notin pl[p].tracks
       /\ pl' = [pl EXCEPT ![p].tracks = @ \cup {t}, ![p].snap = @ + 1]
  /\ UNCHANGED <<liked, plays>>

\* the user edits a playlist's description in the Spotify client
UserEditsDescription ==
  /\ Outside
  /\ \E p \in PIDs, d \in DescChoices :
       /\ pl[p].live
       /\ d # pl[p].desc
       /\ pl' = [pl EXCEPT ![p].desc = d, ![p].snap = @ + 1]
  /\ UNCHANGED <<liked, plays>>

\* the user plays a track and the streaming history export records it
Listen ==
  /\ Outside
  /\ \E t \in Tracks :
       /\ plays[t] < MaxPlays
       /\ plays' = [plays EXCEPT ![t] = @ + 1]
  /\ UNCHANGED <<pl, liked>>

Next ==
  \/ UpdateMonthly
  \/ DeleteAutomated
  \/ Consolidate
  \/ UpdateCurrentYear
  \/ Descriptions
  \/ NewProcess
  \/ UserAddsTrack
  \/ UserEditsDescription
  \/ Listen

Spec == Init /\ [][Next]_vars

-----------------------------------------------------------------------------
(* The direct-call specification: a library of a monthly playlist and its  *)
(* yearly successor is drawn, with a description, a change marker, a       *)
(* cached marker and a possibly stale cached membership of the successor;  *)
(* one helper is called on it.                                             *)

\* the playlist the helper is called on, and its successor
Target == Min(PIDs)
Successor == Target + 1
CallDescs == DescChoices \cup {<<>>, <<"templ">>}

CallInit ==
  /\ \E tt \in SUBSET Tracks, st \in SUBSET Tracks, d \in CallDescs, m \in 1..2 :
       pl = [p \in PIDs |->
               IF p = Target
               THEN [live |-> TRUE, name |-> MonthlyName("monthly", Now),
                     tracks |-> tt, desc |-> d, snap |-> m]
               ELSE IF p = Successor
               THEN [live |-> TRUE, name |-> YearlyName("monthly", Now[1]),
                     tracks |-> st, desc |-> <<"templ">>, snap |-> 1]
               ELSE NoPlaylist]
  /\ nextPid = 3
  /\ liked = [t \in Tracks |-> NotLiked]
  /\ plays = [t \in Tracks |-> 0]
  /\ \E c \in {NoCache} \cup {[has |-> TRUE, v |-> x] : x \in SUBSET Tracks} :
       tcache = [p \in PIDs |-> IF p = Successor THEN c ELSE NoCache]
  /\ ecache = NoExisting
  /\ \E m \in 0..2 : dcache = [p \in PIDs |-> IF p = Target THEN m ELSE 0]
  /\ dkind = "map"
  /\ save = NoSave
  /\ CliIdle
  /\ stepIdx = 0
  /\ userActs = 0
  /\ lastOp = NoOp
  /\ opCount = 0
  /\ procs = 1
  /\ LogIdle
  /\ SanIdle
  /\ MonthIdle

Bool(b) == IF b THEN "True" ELSE "False"

\* the variables after a direct call that leaves the world w and returns r
Returns(w, op, r) ==
  /\ opCount = 0
  /\ opCount' = 1
  /\ pl' = w.pl
  /\ nextPid' = w.nextPid
  /\ tcache' = w.tcache
  /\ ecache' = w.ecache
  /\ dcache' = w.dcache
  /\ dkind' = w.dkind
  /\ calls' = w.calls
  /\ reads' = w.reads
  /\ updates' = w.updates
  /\ dels' = w.dels
  /\ backups' = w.backups
  /\ checks' = w.checks
  /\ result' = r
  /\ lastOp' = op
  /\ UNCHANGED <<liked, plays, stepIdx, userActs, procs, fileVars, cliVars, sanVars, monthVars>>

\* safe_delete_playlist(sp, Target, name, create_backup, verify_tracks_preserved_in)
CallSafeDelete ==
  \E create_backup \in BOOLEAN, verify_in \in {0, Successor} :
    Returns(SafeDelete(World, Target, create_backup, verify_in, "call"),
            Op("safe_delete", verify_in),
            Bool(SafeDeleteSuccess(World, Target, verify_in)))

\* _update_playlist_description_with_genres(sp, user_id, Target, track_uris)
CallUpdateDescription ==
  \E track_uris \in {NoUris, Uris(SetToSeq(pl[Target].tracks))} :
    Returns(UpdateDescription(World, Target, track_uris),
            Op("update_description", 0),
            Bool(PushesDescription(World, Target, track_uris)))

\* delete_duplicate_playlists(sp)
CallDeleteDuplicates ==
  Returns(DeleteDuplicatePlaylists(World), Op("delete_duplicates", 0), "none")

CallNext == CallSafeDelete \/ CallUpdateDescription \/ CallDeleteDuplicates

CallSpec == CallInit /\ [][CallNext]_vars

-----------------------------------------------------------------------------
(* The marker-cache specification: a playlist and a marker cache file are  *)
(* drawn; the description synchronizer is called on the playlist, either   *)
(* to completion or as far as the open(path, "w") of _save_snapshot_cache, *)
(* after which the process writes and closes the file, or dies.            *)

CacheInit ==
  /\ \E tt \in SUBSET Tracks, d \in CallDescs, m \in 1..2 :
       pl = [p \in PIDs |->
               IF p = Target
               THEN [live |-> TRUE, name |-> MonthlyName("monthly", Now),
                     tracks |-> tt, desc |-> d, snap |-> m]
               ELSE NoPlaylist]
  /\ nextPid = Successor
  /\ liked = [t \in Tracks |-> NotLiked]
  /\ plays = [t \in Tracks |-> 0]
  /\ tcache = [p \in PIDs |-> NoCache]
  /\ ecache = NoExisting
  /\ dkind \in CacheKinds
  /\ \E m \in 0..2, other \in 0..1 :
       dcache = IF dkind # "map" THEN NoMarkers
                ELSE [p \in PIDs |-> IF p = Target THEN m
                                     ELSE IF p = Successor THEN other ELSE 0]
  /\ save = NoSave
  /\ CliIdle
  /\ stepIdx = 0
  /\ userActs = 0
  /\ lastOp = NoOp
  /\ opCount = 0
  /\ procs = 1
  /\ LogIdle
  /\ SanIdle
  /\ MonthIdle

\* the call gets as far as _save_snapshot_cache(cache)
ReachesSave(w, pid, track_uris) ==
  /\ w.pl[pid].live
  /\ w.pl[pid].snap # 0
  /\ ~LookupRaises(w, pid)
  /\ ~SkipsUnchanged(w, pid)
  /\ ResolvedUris(w, pid, track_uris) # <<>>
  /\ Strip(NewDescription(w.pl[pid].desc, w.pl[pid].name)) # <<>>

\* _save_snapshot_cache, first half: the call has done everything before
\* the save and open(path, "w") has truncated the file; an empty file is
\* not JSON
SaveOpen ==
  /\ save.pc = "idle"
  /\ opCount = 0
  /\ ReachesSave(World, Target, NoUris)
  /\ LET w == UpdateDescription(World, Target, NoUris)
     IN /\ pl' = w.pl
        /\ tcache' = w.tcache
        /\ calls' = w.calls
        /\ reads' = w.reads
        /\ save' = [pc |-> "opened", old |-> File(dkind, dcache),
                    new |-> File(w.dkind, w.dcache)]
  /\ dkind' = "corrupt"
  /\ dcache' = NoMarkers
  /\ opCount' = 1
  /\ lastOp' = Op("save", 0)
  /\ UNCHANGED <<nextPid, liked, plays, ecache, stepIdx, userActs, procs,
                 updates, dels, backups, checks, result, cliVars, sanVars, monthVars>>

\* _save_snapshot_cache, second half: json.dump(cache, f) and the close
SaveDump ==
  /\ save.pc = "opened"
  /\ dkind' = save.new.kind
  /\ dcache' = save.new.markers
  /\ save' = [save EXCEPT !.pc = "closed"]
  /\ UNCHANGED <<remoteVars, tcache, ecache, runVars, logVars, cliVars, sanVars, monthVars>>

\* the process dies during or right after the save
SaveCrash ==
  /\ save.pc \in {"opened", "closed"}
  /\ save' = [save EXCEPT !.pc = "crashed"]
  /\ UNCHANGED <<remoteVars, cacheVars, runVars, logVars, cliVars, sanVars, monthVars>>

CacheNext == CallUpdateDescription \/ SaveOpen \/ SaveDump \/ SaveCrash

CacheSpec == CacheInit /\ [][CacheNext]_vars

-----------------------------------------------------------------------------
(* The repeated-call specification: a playlist with a description, a       *)
(* change marker and a marker cache is drawn, and the description          *)
(* synchronizer is called on it again and again with nothing else          *)
(* touching the playlist; a call whose push the remote side refuses, or    *)
(* whose text raises UnicodeEncodeError, is the last one.                  *)

\* descriptions a playlist is drawn with
RepeatDescs == CallDescs \cup {<<"lp", "a", "rp">>, <<"emo">>, <<"emo", "sp">>}

PushOp(first, second) ==
  [op |-> "update_description", keep |-> 0, first |-> first, second |-> second]

DescInit ==
  /\ \E tt \in SUBSET Tracks, d \in RepeatDescs, m \in 1..2 :
       pl = [p \in PIDs |->
               IF p = Target
               THEN [live |-> TRUE, name |-> MonthlyName("monthly", Now),
                     tracks |-> tt, desc |-> d, snap |-> m]
               ELSE NoPlaylist]
  /\ nextPid = Successor
  /\ liked = [t \in Tracks |-> NotLiked]
  /\ plays = [t \in Tracks |-> 0]
  /\ tcache = [p \in PIDs |-> NoCache]
  /\ ecache = NoExisting
  /\ dkind \in CacheKinds
  /\ \E m \in 0..2 :
       dcache = IF dkind # "map" THEN NoMarkers
                ELSE [p \in PIDs |-> IF p = Target THEN m ELSE 0]
  /\ save = NoSave
  /\ CliIdle
  /\ stepIdx = 0
  /\ userActs = 0
  /\ lastOp = NoOp
  /\ opCount = 0
  /\ procs = 1
  /\ LogIdle
  /\ SanIdle
  /\ MonthIdle

\* the call has returned; n calls have been made on the playlist
Completes(w, op, r, n) ==
  /\ opCount < MaxCalls
  /\ opCount' = n
  /\ pl' = w.pl
  /\ nextPid' = w.nextPid
  /\ tcache' = w.tcache
  /\ ecache' = w.ecache
  /\ dcache' = w.dcache
  /\ dkind' = w.dkind
  /\ calls' = w.calls
  /\ reads' = w.reads
  /\ updates' = w.updates
  /\ dels' = w.dels
  /\ backups' = w.backups
  /\ checks' = w.checks
  /\ result' = r
  /\ lastOp' = op
  /\ UNCHANGED <<liked, plays, stepIdx, userActs, procs, fileVars, cliVars, sanVars, monthVars>>

\* a call in which the remote side accepts what it is sent
DescribeAgain ==
  \E track_uris \in {NoUris, Uris(SetToSeq(pl[Target].tracks))} :
    Completes(UpdateDescriptionWith(World, Target, track_uris, "ok", "ok"),
              PushOp("ok", "ok"),
              Bool(ReturnsChanged(World, Target, track_uris, "ok", "ok")),
              opCount + 1)

\* a call that gets as far as the push, and the push does not go through
\* at the first attempt
DescribeFailing ==
  \E track_uris \in {NoUris, Uris(SetToSeq(pl[Target].tracks))},
     first \in PushOutcomes \ {"ok"}, second \in {"ok", "rejected"} :
    /\ PushesDescription(World, Target, track_uris)
    /\ Completes(UpdateDescriptionWith(World, Target, track_uris, first, second),
                 PushOp(first, second),
                 Bool(ReturnsChanged(World, Target, track_uris, first, second)),
                 MaxCalls)

DescNext == DescribeAgain \/ DescribeFailing

DescSpec == DescInit /\ [][DescNext]_vars

-----------------------------------------------------------------------------
(* The monthly-update specification: liked songs of this month and of two  *)
(* months ago are drawn, and a library that is empty or holds the Finds    *)
(* playlist of this month or of last month; a fresh process calls          *)
(* update_monthly_playlists once.                                          *)

\* the months a liked song is drawn in
PlaceholderLikedMonths == {Now, SubMonths(Now, 2)}

\* the monthly playlist the library is drawn with, if any
PlaceholderMonths == {Now, SubMonths(Now, 1)}

PlaceholderInit ==
  /\ \E has \in BOOLEAN, ym \in PlaceholderMonths, tt \in SUBSET Tracks :
       /\ pl = [p \in PIDs |->
                  IF has /\ p = Target
                  THEN [live |-> TRUE, name |-> MonthlyName("monthly", ym),
                        tracks |-> tt, desc |-> FormattedDescription, snap |-> 1]
                  ELSE NoPlaylist]
       /\ nextPid = IF has THEN Successor ELSE Target
  /\ liked \in [Tracks -> PlaceholderLikedMonths \cup {NotLiked}]
  /\ plays = [t \in Tracks |-> 0]
  /\ tcache = [p \in PIDs |-> NoCache]
  /\ ecache = NoExisting
  /\ dcache = NoMarkers
  /\ dkind = "absent"
  /\ save = NoSave
  /\ CliIdle
  /\ stepIdx = 0
  /\ userActs = 0
  /\ lastOp = NoOp
  /\ opCount = 0
  /\ procs = 1
  /\ LogIdle
  /\ SanIdle
  /\ MonthIdle

CallUpdateMonthly ==
  \E n \in 0..MaxKeepCall :
    /\ ~UpdateMonthlyPlaylists(World, n).full
    /\ Returns(UpdateMonthlyPlaylists(World, n), Op("update_monthly", n), "none")

PlaceholderNext == CallUpdateMonthly

PlaceholderSpec == PlaceholderInit /\ [][PlaceholderNext]_vars

-----------------------------------------------------------------------------
(* The consolidation specification: a library of two monthly playlists and *)
(* possibly the yearly Finds playlist of the current year is drawn, with   *)
(* track caches that may be behind the live membership, and                *)
(* consolidate_old_monthly_playlists is called on it.                      *)

\* a track cache entry for a playlist of these tracks: none, or a
\* membership fetched before tracks were added
StaleCaches(tracks) == {NoCache} \cup {[has |-> TRUE, v |-> x] : x \in SUBSET tracks}

\* the second monthly playlist: another month of the year, another type,
\* or another year
SecondNames ==
  {MonthlyName("monthly", <<Now[1], 2>>), MonthlyName("most_played", <<Now[1], 1>>),
   MonthlyName("monthly", <<Now[1] - 1, 12>>)}

ConsInit ==
  /\ \E t1 \in SUBSET Tracks, t2 \in SUBSET Tracks, n2 \in SecondNames,
        yearly \in BOOLEAN, ty \in SUBSET Tracks :
       /\ yearly \/ ty = {}
       /\ pl = [p \in PIDs |->
                  IF p = Target
                  THEN [live |-> TRUE, name |-> MonthlyName("monthly", <<Now[1], 1>>),
                        tracks |-> t1, desc |-> <<>>, snap |-> 1]
                  ELSE IF p = Successor
                  THEN [live |-> TRUE, name |-> n2, tracks |-> t2, desc |-> <<>>,
                        snap |-> 1]
                  ELSE IF p = Successor + 1 /\ yearly
                  THEN [live |-> TRUE, name |-> YearlyName("monthly", Now[1]),
                        tracks |-> ty, desc |-> <<>>, snap |-> 1]
                  ELSE NoPlaylist]
       /\ nextPid = IF yearly THEN Successor + 2 ELSE Successor + 1
       /\ \E c1 \in StaleCaches(t1), c2 \in StaleCaches(t2) :
            tcache = [p \in PIDs |-> IF p = Target THEN c1
                                     ELSE IF p = Successor THEN c2 ELSE NoCache]
  /\ liked = [t \in Tracks |-> NotLiked]
  /\ plays = [t \in Tracks |-> 0]
  /\ ecache = NoExisting
  /\ dcache = [p \in PIDs |-> 0]
  /\ dkind = "absent"
  /\ save = NoSave
  /\ CliIdle
  /\ stepIdx = 0
  /\ userActs = 0
  /\ lastOp = NoOp
  /\ opCount = 0
  /\ procs = 1
  /\ LogIdle
  /\ SanIdle
  /\ MonthIdle

\* consolidate_old_monthly_playlists(sp, keep_last_n_months)
CallConsolidate ==
  \E n \in 0..MaxKeepMain :
    /\ ~ConsolidateOldMonthlyPlaylists(World, n).full
    /\ Returns(ConsolidateOldMonthlyPlaylists(World, n), Op("consolidate", n), "none")

ConsNext == CallConsolidate

ConsSpec == ConsInit /\ [][ConsNext]_vars

-----------------------------------------------------------------------------
(* The ranking specification: two monthly playlists of one type, January   *)
(* and February of this year or of last year, are drawn with their tracks, *)
(* and the play counts of this year; consolidate_old_monthly_playlists is  *)
(* called on the library.                                                  *)

RankInit ==
  /\ \E ptype \in PlaylistTypes, yy \in {Now[1] - 1, Now[1]},
        t1 \in SUBSET Tracks, t2 \in SUBSET Tracks :
       pl = [p \in PIDs |->
               IF p = Target
               THEN [live |-> TRUE, name |-> MonthlyName(ptype, <<yy, 1>>),
                     tracks |-> t1, desc |-> <<>>, snap |-> 1]
               ELSE IF p = Successor
               THEN [live |-> TRUE, name |-> MonthlyName(ptype, <<yy, 2>>),
                     tracks |-> t2, desc |-> <<>>, snap |-> 1]
               ELSE NoPlaylist]
  /\ nextPid = Successor + 1
  /\ liked = [t \in Tracks |-> NotLiked]
  /\ plays \in [Tracks -> 0..MaxPlays]
  /\ tcache = [p \in PIDs |-> NoCache]
  /\ ecache = NoExisting
  /\ dcache = [p \in PIDs |-> 0]
  /\ dkind = "absent"
  /\ save = NoSave
  /\ CliIdle
  /\ stepIdx = 0
  /\ userActs = 0
  /\ lastOp = NoOp
  /\ opCount = 0
  /\ procs = 1
  /\ LogIdle
  /\ SanIdle
  /\ MonthIdle

RankNext == CallConsolidate

RankSpec == RankInit /\ [][RankNext]_vars

-----------------------------------------------------------------------------
(* The candidate-year specification: liked songs of three months, play     *)
(* counts of this year, and a library of at most one monthly and one       *)
(* yearly playlist are drawn; consolidate_old_monthly_playlists is called  *)
(* and the years of its "Found N year(s) to consolidate" line are kept.    *)

\* the months a liked song is drawn in
YearsLikedMonths == {<<Now[1] - 1, 12>>, <<Now[1], 1>>, Now}

\* the names the monthly playlist is drawn with
YearsMonthlyNames ==
  {MonthlyName("monthly", <<Now[1], 1>>), MonthlyName("monthly", <<Now[1] - 1, 12>>),
   MonthlyName("monthly", Now), MonthlyName("most_played", <<Now[1], 1>>)}

\* the names the yearly playlist is drawn with
YearsYearlyNames ==
  {YearlyName("monthly", Now[1]), YearlyName("monthly", Now[1] - 1),
   YearlyName("most_played", Now[1]), YearlyName("discovery", Now[1])}

YearsInit ==
  /\ \E has1 \in BOOLEAN, n1 \in YearsMonthlyNames, t1 \in SUBSET Tracks,
        has2 \in BOOLEAN, n2 \in YearsYearlyNames :
       pl = [p \in PIDs |->
               IF has1 /\ p = Target
               THEN [live |-> TRUE, name |-> n1, tracks |-> t1, desc |-> <<>>,
                     snap |-> 1]
               ELSE IF has2 /\ p = Successor
               THEN [live |-> TRUE, name |-> n2, tracks |-> {}, desc |-> <<>>,
                     snap |-> 1]
               ELSE NoPlaylist]
  /\ nextPid = Successor + 1
  /\ liked \in [Tracks -> YearsLikedMonths \cup {NotLiked}]
  /\ plays \in [Tracks -> 0..MaxPlays]
  /\ tcache = [p \in PIDs |-> NoCache]
  /\ ecache = NoExisting
  /\ dcache = [p \in PIDs |-> 0]
  /\ dkind = "absent"
  /\ save = NoSave
  /\ CliIdle
  /\ stepIdx = 0
  /\ userActs = 0
  /\ lastOp = NoOp
  /\ opCount = 0
  /\ procs = 1
  /\ LogIdle
  /\ SanIdle
  /\ MonthIdle

\* consolidate_old_monthly_playlists(sp, keep_last_n_months), with the
\* years it logs as found
CallConsolidateYears ==
  \E n \in 0..MaxKeepMain :
    /\ ~ConsolidateOldMonthlyPlaylists(World, n).full
    /\ Returns(ConsolidateOldMonthlyPlaylists(World, n), Op("consolidate", n),
               YearsToConsolidate(World, n))

YearsNext == CallConsolidateYears

YearsSpec == YearsInit /\ [][YearsNext]_vars

-----------------------------------------------------------------------------
(* The run specification: a command line, a small library and the two      *)
(* marker caches are drawn; main() authenticates, resolves the steps and   *)
(* runs them in order.  Inside a step an Exception or a KeyboardInterrupt  *)
(* may be raised at one of the step's places; a step in which something    *)
(* is raised leaves the library as it was.                                 *)

PieceChoices ==
  {Plain("sync"), Piece("sync", TRUE, FALSE), Piece("descriptions", FALSE, TRUE),
   Plain("consolidate"), Plain("bogus"), Plain("")}

PiecesUpTo(n) == UNION {[1..k -> PieceChoices] : k \in 1..n}

RunInit ==
  /\ \E steps \in {NoStepsArg} \cup {StepsArg(ps) : ps \in PiecesUpTo(MaxPieces)},
        skip_sync \in BOOLEAN, sync_only \in BOOLEAN, force \in BOOLEAN,
        reports \in BOOLEAN :
       args = [steps |-> steps, skip_sync |-> skip_sync, sync_only |-> sync_only,
               force |-> force, health_check |-> reports, insights_report |-> reports]
  /\ run = [NoRun EXCEPT !.pc = "start"]
  /\ pl = [p \in PIDs |->
             IF p = Target
             THEN [live |-> TRUE, name |-> YearlyName("monthly", Now[1]),
                   tracks |-> {Min(Tracks)}, desc |-> <<"a">>, snap |-> 1]
             ELSE NoPlaylist]
  /\ nextPid = Successor
  /\ liked = [t \in Tracks |-> NotLiked]
  /\ plays = [t \in Tracks |-> 0]
  /\ tcache = [p \in PIDs |-> NoCache]
  /\ ecache = NoExisting
  /\ \E m \in 0..1 :
       /\ dkind = IF m = 0 THEN "absent" ELSE "map"
       /\ dcache = [p \in PIDs |-> IF p = Target THEN m ELSE 0]
  /\ \E m \in 0..1 : synced = [p \in PIDs |-> IF p = Target THEN m ELSE 0]
  /\ skips = NoSkips
  /\ save = NoSave
  /\ stepIdx = 0
  /\ userActs = 0
  /\ lastOp = NoOp
  /\ opCount = 0
  /\ procs = 1
  /\ LogIdle
  /\ SanIdle
  /\ MonthIdle

\* the try statement around get_spotify_client() and get_user_info(sp)
AuthTry == <<ExceptException>>

\* sp = get_spotify_client(); user = get_user_info(sp): missing credentials
\* and a failed profile fetch are Exceptions; the handler exits 1, and an
\* interrupt leaves main() uncaught
Authenticate ==
  /\ run.pc = "start"
  /\ \E exc \in Raisable \cup {"none"} :
       run' = IF exc = "none" THEN [run EXCEPT !.pc = "authed", !.auth = "ok"]
              ELSE IF Swallows(exc, AuthTry)
              THEN [run EXCEPT !.pc = "exited", !.auth = exc, !.exit = 1]
              ELSE [run EXCEPT !.pc = "exited", !.auth = exc, !.exit = 130]
  /\ UNCHANGED <<remoteVars, cacheVars, runVars, logVars, fileVars, args, synced, skips,
                 sanVars, monthVars>>

\* steps_to_run = parse_steps(steps_arg), the warning, the default steps
ResolveSteps ==
  /\ run.pc = "authed"
  /\ run' = [run EXCEPT !.pc = "loop", !.steps_to_run = StepsToRun(args),
                        !.warned = UnknownWarned(args)]
  /\ UNCHANGED <<remoteVars, cacheVars, runVars, logVars, fileVars, args, synced, skips,
                 sanVars, monthVars>>

\* the loop is at step_id
AtStep(step_id) ==
  /\ run.pc = "loop"
  /\ run.pos <= Len(run.steps_to_run)
  /\ run.steps_to_run[run.pos] = step_id

\* the run after the step at the loop position: exc was raised at place, or
\* nothing was raised (exc = "none"); outcomes records "ok", "failed" for
\* what a handler of the step swallowed, or the exception that left the
\* step.  What leaves the step ends the loop, caught by the top-level
\* except Exception or not, and the finally clause exits
AfterStep(r, exc, place, sync_completed) ==
  IF exc # "none" /\ Escapes(exc, place)
  THEN [r EXCEPT !.started = Append(@, r.steps_to_run[r.pos]),
                 !.outcomes = Append(@, exc),
                 !.raised = Append(@, [exc |-> exc, place |-> place]),
                 !.error = IF Swallows(exc, TopLevelTry) THEN exc ELSE "none",
                 !.success = FALSE,
                 !.pc = "exited",
                 !.exit = ExitStatus(FALSE)]
  ELSE [r EXCEPT !.started = Append(@, r.steps_to_run[r.pos]),
                 !.outcomes = Append(@, IF exc = "none" THEN "ok" ELSE "failed"),
                 !.raised = Append(@, [exc |-> exc,
                                       place |-> IF exc = "none" THEN <<>> ELSE place]),
                 !.sync_completed = sync_completed,
                 !.pos = @ + 1]

\* the library and the caches after the step: w when nothing was raised
StepWorld(w, exc) ==
  /\ ~w.full
  /\ pl' = (IF exc = "none" THEN w ELSE World).pl
  /\ nextPid' = (IF exc = "none" THEN w ELSE World).nextPid
  /\ tcache' = (IF exc = "none" THEN w ELSE World).tcache
  /\ ecache' = (IF exc = "none" THEN w ELSE World).ecache
  /\ dcache' = (IF exc = "none" THEN w ELSE World).dcache
  /\ dkind' = (IF exc = "none" THEN w ELSE World).dkind
  /\ calls' = (IF exc = "none" THEN w ELSE World).calls
  /\ reads' = (IF exc = "none" THEN w ELSE World).reads
  /\ updates' = (IF exc = "none" THEN w ELSE World).updates
  /\ dels' = (IF exc = "none" THEN w ELSE World).dels
  /\ backups' = (IF exc = "none" THEN w ELSE World).backups
  /\ checks' = (IF exc = "none" THEN w ELSE World).checks
  /\ UNCHANGED <<liked, plays, result, runVars, fileVars, args, sanVars, monthVars>>

\* sf.sync(force=force, ...): the playlists it does not fetch again, those
\* whose marker in its cache equals the live marker, none when forced
SyncSkips(force) == {p \in PIDs : pl[p].live /\ ~force /\ synced[p] = pl[p].snap}

\* the library sync's marker cache after a sync
SyncedAfter == [p \in PIDs |-> IF pl[p].live THEN pl[p].snap ELSE 0]

\* the value sync_full_library returns: False when its own try statement,
\* the one inside the decorator, is the first to catch
SyncFullLibrary(exc, place) ==
  ~ /\ exc # "none"
    /\ \A i \in 1..(Len(place) - 2) : ~Swallows(exc, place[i])
    /\ Swallows(exc, place[Len(place) - 1])

\* sync_success = sync_full_library(force=args.force);
\* summary["sync_completed"] = "Yes" if sync_success else "No"
StepSync ==
  /\ AtStep("sync")
  /\ \E exc \in Raisable \cup {"none"}, place \in Places("sync") :
       /\ run' = AfterStep(run, exc, place,
                           IF SyncFullLibrary(exc, place) THEN "Yes" ELSE "No")
       /\ synced' = IF exc = "none" THEN SyncedAfter ELSE synced
       /\ skips' = IF exc = "none" THEN [skips EXCEPT !.sync = SyncSkips(args.force)]
                   ELSE skips
       /\ StepWorld(World, exc)

\* rename_playlists_with_old_prefixes(sp): the library holds no playlist
\* with an old prefix
StepRename ==
  /\ AtStep("rename")
  /\ \E exc \in Raisable \cup {"none"}, place \in Places("rename") :
       /\ run' = AfterStep(run, exc, place, run.sync_completed)
       /\ StepWorld(World, exc)
  /\ UNCHANGED <<synced, skips>>

\* delete_automated_monthly_and_genre_playlists(sp)
StepDeleteAutomated ==
  /\ AtStep("delete_monthly_and_genre")
  /\ \E exc \in Raisable \cup {"none"}, place \in Places("delete_monthly_and_genre") :
       /\ run' = AfterStep(run, exc, place, run.sync_completed)
       /\ StepWorld(DeleteAutomatedMonthlyAndGenrePlaylists(World), exc)
  /\ UNCHANGED <<synced, skips>>

\* consolidate_old_monthly_playlists(sp, keep_last_n_months=0)
StepConsolidate ==
  /\ AtStep("consolidate")
  /\ \E exc \in Raisable \cup {"none"}, place \in Places("consolidate") :
       /\ run' = AfterStep(run, exc, place, run.sync_completed)
       /\ StepWorld(ConsolidateOldMonthlyPlaylists(World, 0), exc)
  /\ UNCHANGED <<synced, skips>>

\* update_current_year_playlists(sp)
StepUpdateCurrentYear ==
  /\ AtStep("update_current_year")
  /\ \E exc \in Raisable \cup {"none"}, place \in Places("update_current_year") :
       /\ run' = AfterStep(run, exc, place, run.sync_completed)
       /\ StepWorld(UpdateCurrentYearPlaylists(World), exc)
  /\ UNCHANGED <<synced, skips>>

RECURSIVE DescribeSkips(_, _)
\* the playlists the description loop leaves alone on equal markers
DescribeSkips(w, pids) ==
  IF pids = <<>> THEN {}
  ELSE (IF w.pl[Head(pids)].live /\ SkipsUnchanged(w, Head(pids)) THEN {Head(pids)} ELSE {})
       \cup DescribeSkips(UpdateDescription(w, Head(pids), NoUris), Tail(pids))

\* for each owned playlist:
\* _update_playlist_description_with_genres(sp, user["id"], pid, None)
StepDescriptions ==
  /\ AtStep("descriptions")
  /\ \E exc \in Raisable \cup {"none"}, place \in Places("descriptions") :
       /\ run' = AfterStep(run, exc, place, run.sync_completed)
       /\ skips' = IF exc = "none"
                   THEN [skips EXCEPT !.descriptions =
                           DescribeSkips(World, SetToSeq({p \in PIDs : pl[p].live}))]
                   ELSE skips
       /\ StepWorld(DescriptionsStep(World), exc)
  /\ UNCHANGED synced

\* the health check and the insights report: read-only
StepReport ==
  /\ \E step_id \in {"health_check", "insights_report"} :
       /\ AtStep(step_id)
       /\ \E exc \in Raisable \cup {"none"}, place \in Places(step_id) :
            /\ run' = AfterStep(run, exc, place, run.sync_completed)
            /\ StepWorld(World, exc)
  /\ UNCHANGED <<synced, skips>>

\* the loop is over: log("Complete!"), success = True, and the finally clause
Finish ==
  /\ run.pc = "loop"
  /\ run.pos > Len(run.steps_to_run)
  /\ run' = [run EXCEPT !.complete = TRUE, !.success = TRUE, !.pc = "exited",
                        !.exit = ExitStatus(TRUE)]
  /\ UNCHANGED <<remoteVars, cacheVars, runVars, logVars, fileVars, args, synced, skips,
                 sanVars, monthVars>>

RunNext ==
  \/ Authenticate
  \/ ResolveSteps
  \/ StepSync
  \/ StepRename
  \/ StepDeleteAutomated
  \/ StepConsolidate
  \/ StepUpdateCurrentYear
  \/ StepDescriptions
  \/ StepReport
  \/ Finish

RunSpec == RunInit /\ [][RunNext]_vars

-----------------------------------------------------------------------------
(* The sanitizer specification: a raw description and a max_length are     *)
(* drawn, the description is sanitized, and the result sanitized again.    *)

SanAlphabet == {"a", "cm", "ae", "zw", "ctl", "nl", "emo"}

StringsUpTo(n) == UNION {[1..k -> SanAlphabet] : k \in 0..n}

SanInit ==
  /\ sanIn \in StringsUpTo(MaxStrLen)
  /\ sanMax \in 0..MaxMaxLen
  /\ sanOut = <<>>
  /\ sanOut2 = <<>>
  /\ sanPc = "init"
  /\ MonthIdle
  /\ MainIdle

SanitizeOnce ==
  /\ sanPc = "init"
  /\ sanOut' = SanitizeForApi(sanIn, sanMax)
  /\ sanPc' = "once"
  /\ UNCHANGED <<sanIn, sanMax, sanOut2>>
  /\ UNCHANGED <<monthVars, mainVars>>

SanitizeAgain ==
  /\ sanPc = "once"
  /\ sanOut2' = SanitizeForApi(sanOut, sanMax)
  /\ sanPc' = "twice"
  /\ UNCHANGED <<sanIn, sanMax, sanOut>>
  /\ UNCHANGED <<monthVars, mainVars>>

SanNext == SanitizeOnce \/ SanitizeAgain

SanSpec == SanInit /\ [][SanNext]_vars

-----------------------------------------------------------------------------
(* The month window specification: an evaluation date and a                *)
(* keep_last_n_months are drawn; update_monthly_playlists computes the     *)
(* months it keeps and consolidation classifies every monthly name.        *)

AllMonths == {<<y, m>> : y \in FirstYear..(FirstYear + NumYears - 1), m \in 1..12}

MonthInit ==
  /\ mNow \in AllMonths
  /\ mKeep \in 0..MaxKeep
  /\ mRecent = {}
  /\ mRolled = {}
  /\ mPc = {}
  /\ SanIdle
  /\ MainIdle

ComputeRecentMonths ==
  /\ "recent" \notin mPc
  /\ mRecent' = RecentMonths(mNow, mKeep)
  /\ mPc' = mPc \cup {"recent"}
  /\ UNCHANGED <<mNow, mKeep, mRolled>>
  /\ UNCHANGED <<sanVars, mainVars>>

ClassifyMonthlyNames ==
  /\ "rolled" \notin mPc
  /\ mRolled' = {ym \in AllMonths :
                   IsRolledOff(MonthlyName("monthly", ym), CutoffYearMonth(mNow, mKeep))}
  /\ mPc' = mPc \cup {"rolled"}
  /\ UNCHANGED <<mNow, mKeep, mRecent>>
  /\ UNCHANGED <<sanVars, mainVars>>

MonthNext == ComputeRecentMonths \/ ClassifyMonthlyNames

MonthSpec == MonthInit /\ [][MonthNext]_vars

-----------------------------------------------------------------------------
(* C9: the sanitized description is at most max_length characters long and *)
(* holds no control character, whatever the input.                         *)
SanitizedWithinLimit ==
  sanPc # "init" =>
    /\ Len(sanOut) <= sanMax
    /\ \A i \in 1..Len(sanOut) : sanOut[i] \notin ControlChars

\* a description longer than max_length, holding a control character and an
\* emoji, has been sanitized
SanitizedLongDirtyInput ==
  /\ sanPc = "once"
  /\ sanMax > 0
  /\ Len(StripEmojiAndProblematic(Normalize(sanIn))) > sanMax
  /\ \E i \in 1..Len(sanIn) : sanIn[i] \in ControlChars \cup EmojiSo
  /\ Len(sanOut) = sanMax

(* C10: sanitizing an already sanitized description changes nothing.       *)
SanitizeIdempotent ==
  sanPc = "twice" => sanOut2 = sanOut

-----------------------------------------------------------------------------
Ord(ym) == ym[1] * 12 + (ym[2] - 1)

(* C7: the months kept as monthly are exactly the last keep_last_n_months  *)
(* calendar months ending with the current one, the months consolidation   *)
(* collects are exactly those at or before the current month minus         *)
(* keep_last_n_months, and the two sets are disjoint and cover every month *)
(* up to the current one.                                                  *)
MonthPartition ==
  mPc = {"recent", "rolled"} =>
    /\ \A ym \in mRecent : Ord(mNow) - mKeep < Ord(ym) /\ Ord(ym) <= Ord(mNow)
    /\ Cardinality(mRecent) = mKeep
    /\ mRolled = {ym \in AllMonths : Ord(ym) <= Ord(mNow) - mKeep}
    /\ mRecent \cap mRolled = {}
    /\ \A ym \in AllMonths : Ord(ym) <= Ord(mNow) => ym \in mRecent \cup mRolled

\* evaluated in November 2024 with keep_last_n_months = 3: September to
\* November stay monthly, January to August 2024 are collected
MonthPartitionNov2024 ==
  /\ mPc = {"recent", "rolled"}
  /\ mNow = <<2024, 11>>
  /\ mKeep = 3
  /\ mRecent = {<<2024, 9>>, <<2024, 10>>, <<2024, 11>>}
  /\ {ym \in mRolled : ym[1] = 2024} = {<<2024, m>> : m \in 1..8}


-----------------------------------------------------------------------------
(* C2: in every run and every step, a playlist is deleted only after every *)
(* track it contains has been verified present in its designated successor *)
(* playlist; no deletion is issued without such a verification.            *)
DeletionsVerified ==
  \A i \in 1..Len(dels) :
    dels[i].done => dels[i].verify # 0 /\ dels[i].tracks \subseteq dels[i].kept

(* C3: once consolidation has run to completion, every liked-songs track   *)
(* whose added-month is at or before the cutoff is a member of the yearly  *)
(* Finds playlist of its added-year.                                       *)
NoLossAfterConsolidation ==
  lastOp.op = "consolidate" =>
    \A t \in Tracks :
      (liked[t] # NotLiked /\ YmLeq(liked[t], CutoffYearMonth(Now, lastOp.keep))) =>
        \E p \in PIDs :
          /\ pl[p].live
          /\ pl[p].name = YearlyName("monthly", liked[t][1])
          /\ t \in pl[p].tracks

(* C4: whenever an operation updates an existing playlist whose live       *)
(* membership is R with desired track list D, the URIs it sends in         *)
(* add-tracks calls are exactly D minus R, in D's order.                   *)
AdditivePlan ==
  \A i \in 1..Len(updates) :
    updates[i].sent = NotIn(updates[i].desired, updates[i].live)

(* C5: the track set of every playlist that still exists only grows, and   *)
(* no step issues a track-removal or membership-replace call.              *)
AppendOnly ==
  [][/\ \A p \in PIDs :
          (pl[p].live /\ pl'[p].live) => pl[p].tracks \subseteq pl'[p].tracks
     /\ \A i \in 1..Len(calls') :
          calls'[i].op \in {"create", "add", "describe", "delete"}]_vars

\* C5 witness: after a later operation that changed the library, a playlist
\* still holds a track that only the user can have put there
ManualTrackKept ==
  /\ lastOp.op \notin {"none", "outside"}
  /\ userActs > 0
  /\ calls # <<>>
  /\ \E p \in PIDs, t \in Tracks :
       /\ pl[p].live
       /\ t \in pl[p].tracks
       /\ liked[t] = NotLiked
       /\ plays[t] = 0

(* C6: when update_monthly_playlists runs twice in a row with the same     *)
(* keep_last_n_months and nothing else changes in between, the second run  *)
(* issues no mutating call.                                                *)
MonthlyIdempotent ==
  [][(/\ lastOp.op = "update_monthly"
      /\ lastOp' = lastOp
      /\ opCount' = opCount + 1) => calls' = <<>>]_vars

(* C1: safe_delete_playlist with verify_tracks_preserved_in=S never        *)
(* returns success=True and never issues the remote delete when a track of *)
(* the target is absent from the live membership of S; when create_backup  *)
(* is true the backup is still written.                                    *)
SafeDeleteNeverLoses ==
  lastOp.op = "safe_delete" =>
    \A i \in 1..Len(dels) :
      (dels[i].verify # 0 /\ ~(dels[i].tracks \subseteq dels[i].kept)) =>
        /\ ~dels[i].done
        /\ result = "False"
        /\ pl[dels[i].pid].live
        /\ \A j \in 1..Len(calls) : calls[j].op # "delete"
        /\ dels[i].backup => dels[i].pid \in backups

\* C1 witness: a delete was refused although the cached membership of the
\* successor holds every track of the target, and the backup was written
SafeDeleteRefused ==
  /\ lastOp.op = "safe_delete"
  /\ dels # <<>>
  /\ dels[1].verify = Successor
  /\ ~(dels[1].tracks \subseteq dels[1].kept)
  /\ dels[1].backup
  /\ Target \in backups
  /\ result = "False"

(* C8: when the description marker cache holds for a playlist a marker     *)
(* equal to the playlist's live change marker, the description update      *)
(* issues no mutating call, reads the playlist once to learn the live      *)
(* marker, changes nothing and returns changed=False.                      *)
SkipReadsOnce ==
  [][(/\ opCount' = opCount + 1
      /\ lastOp'.op = "update_description"
      /\ pl[Target].snap # 0
      /\ dcache[Target] = pl[Target].snap)
     => /\ calls' = <<>>
        /\ reads' = 1
        /\ result' = "False"
        /\ UNCHANGED <<pl, dcache>>]_vars

\* C8 witness: the call was skipped on a playlist whose description it
\* would otherwise have replaced
SkippedStaleDescription ==
  /\ lastOp.op = "update_description"
  /\ dcache[Target] = pl[Target].snap
  /\ pl[Target].tracks # {}
  /\ NewDescription(pl[Target].desc, pl[Target].name) # pl[Target].desc
  /\ Strip(NewDescription(pl[Target].desc, pl[Target].name)) # <<>>
  /\ calls = <<>>
  /\ reads = 1
  /\ result = "False"

\* C8 as stated: with the cached marker equal to the live one the call
\* makes no remote call at all, neither a read nor a mutation
SkipMakesNoCall ==
  [][(/\ opCount' = opCount + 1
      /\ lastOp'.op = "update_description"
      /\ pl[Target].snap # 0
      /\ dcache[Target] = pl[Target].snap)
     => /\ calls' = <<>>
        /\ reads' = 0
        /\ result' = "False"]_vars

-----------------------------------------------------------------------------
(* C11: when the marker cache file is absent, is not JSON, or is JSON that  *)
(* is not a mapping, the description update does what it does with an      *)
(* empty mapping: the same remote calls, the same description, the same    *)
(* return value.                                                           *)
MarkerCacheDegrades ==
  [][(lastOp'.op = "update_description" /\ opCount' = opCount + 1 /\ dkind # "map") =>
        LET empty == [World EXCEPT !.dkind = "map", !.dcache = NoMarkers]
        IN /\ pl' = UpdateDescription(empty, Target, NoUris).pl
           /\ calls' = UpdateDescription(empty, Target, NoUris).calls
           /\ result' = Bool(PushesDescription(empty, Target, NoUris))]_vars

(* C12: after a crash during the save of the marker cache, the file holds  *)
(* the complete previous mapping or the complete new one.                  *)
AtomicCacheWrite ==
  (save.pc = "crashed" /\ save.old.kind = "map") =>
    File(dkind, dcache) \in {save.old, save.new}

-----------------------------------------------------------------------------
(* Claims about a run of main() *)

\* the step names typed in --steps, letter case and surrounding blanks aside
Names(a) == {a.steps.pieces[i].name : i \in DOMAIN a.steps.pieces} \ {""}

KnownNamed(a) == Names(a) \cap SeqToSet(SyncStepIds)

UnknownNamed(a) == Names(a) \ SeqToSet(SyncStepIds)

\* the steps the command line selects
Selected(a) ==
  IF a.steps.given /\ Names(a) # {} THEN KnownNamed(a) ELSE SeqToSet(DefaultSteps(a))

ReconciliationSteps ==
  {"rename", "delete_monthly_and_genre", "consolidate", "update_current_year",
   "descriptions"}

StepRank(step_id) == CHOOSE i \in DOMAIN SyncStepIds : SyncStepIds[i] = step_id

\* the exception of step i left the step
Escaped(i) == run.outcomes[i] \in Raisable

(* C13: when sync is selected together with a reconciliation step, sync   *)
(* has returned before that step starts, however the names were typed;    *)
(* the steps start in the order of SYNC_STEP_IDS, each at most once.      *)
SyncBeforeReconciliation ==
  /\ \A i, j \in DOMAIN run.started :
       i < j => StepRank(run.started[i]) < StepRank(run.started[j])
  /\ \A j \in DOMAIN run.started :
       (run.started[j] \in ReconciliationSteps /\ "sync" \in Selected(args)) =>
         \E i \in 1..(j - 1) : run.started[i] = "sync" /\ ~Escaped(i)

\* --steps "consolidate,SYNC": sync ran first, then consolidate
SyncBeforeReconciliationWitness ==
  /\ args.steps = StepsArg(<<Plain("consolidate"), Piece("sync", TRUE, FALSE)>>)
  /\ run.started = <<"sync", "consolidate">>
  /\ run.complete

\* what C14 says of the --steps strings in which names holds
UnknownStepsIgnored(names) ==
  (args.steps.given /\ names /\ run.auth = "ok" /\ run.pc \in {"loop", "exited"}) =>
    /\ {run.warned[i].name : i \in DOMAIN run.warned} = UnknownNamed(args)
    /\ SeqToSet(run.steps_to_run) = KnownNamed(args)
    /\ SeqToSet(run.started) \subseteq KnownNamed(args)
    /\ (run.complete => SeqToSet(run.started) = KnownNamed(args))
    /\ (KnownNamed(args) = {} /\ run.pc = "exited") =>
         (run.started = <<>> /\ run.complete /\ run.success /\ run.exit = 0)

(* C14: for a --steps string that names at least one step, the unknown    *)
(* names are warned about and ignored, exactly the known names typed are  *)
(* run, and a string of unknown names only runs nothing and succeeds.     *)
UnknownStepsIgnoredWhenNamed == UnknownStepsIgnored(Names(args) # {})

\* --steps "bogus": warned, nothing run, exit status 0
UnknownStepsIgnoredWitness ==
  /\ args.steps = StepsArg(<<Plain("bogus")>>)
  /\ run.warned = <<Plain("bogus")>>
  /\ run.started = <<>>
  /\ run.pc = "exited"
  /\ run.exit = 0

\* C14 as stated, for any --steps string: violated by a string without a
\* name, "" or ",", which runs the default pipeline
UnknownStepsIgnoredAlways == UnknownStepsIgnored(TRUE)

(* C15: in a run started with --force no playlist is skipped because its  *)
(* cached marker equals its live marker, neither in the library sync nor  *)
(* in the description synchronizer.                                       *)
ForceBypassesMarkers ==
  args.force => (skips.sync = {} /\ skips.descriptions = {})

(* C16: when the library sync fails with an ordinary error,               *)
(* sync_full_library returns False, sync_completed is "No", and every     *)
(* later selected step is still run.                                      *)
SyncFailureContinues ==
  \A i \in DOMAIN run.started :
    (/\ run.started[i] = "sync"
     /\ run.raised[i].exc = "error"
     /\ run.raised[i].place = <<SyncTry, <<HandleErrors(TRUE)>>>>) =>
      /\ run.outcomes[i] = "failed"
      /\ run.sync_completed = "No"
      /\ (run.pc = "loop" => run.pos > i)
      /\ (run.complete => run.started = run.steps_to_run)
      /\ (run.pc = "exited" /\ ~run.complete) =>
           \E j \in DOMAIN run.started : j > i /\ Escaped(j)

\* the sync failed, the descriptions step ran after it, exit status 0
SyncFailureContinuesWitness ==
  /\ run.started = <<"sync", "descriptions">>
  /\ run.raised[1] = [exc |-> "error", place |-> <<SyncTry, <<HandleErrors(TRUE)>>>>]
  /\ run.sync_completed = "No"
  /\ run.outcomes = <<"failed", "ok">>
  /\ run.complete
  /\ run.exit = 0

(* C17: a keyboard interrupt raised during a step is not turned into a    *)
(* continue outcome: the step is the last one started and the run ends    *)
(* without success.                                                       *)
InterruptsTerminate ==
  /\ \A i \in DOMAIN run.started :
       run.raised[i].exc = "interrupt" =>
         /\ run.outcomes[i] = "interrupt"
         /\ i = Len(run.started)
         /\ run.pc = "exited"
         /\ ~run.success
         /\ ~run.complete
         /\ run.exit # 0
  /\ run.auth = "interrupt" =>
       (run.pc = "exited" /\ run.started = <<>> /\ ~run.success /\ run.exit # 0)

\* an interrupt inside the export data sync ended a run that had
\* consolidate still to do
InterruptsTerminateWitness ==
  /\ run.steps_to_run = <<"sync", "consolidate">>
  /\ run.started = <<"sync">>
  /\ run.raised[1].exc = "interrupt"
  /\ Len(run.raised[1].place) > Len(<<SyncTry, <<HandleErrors(TRUE)>>>>)
  /\ run.pc = "exited"
  /\ run.exit # 0

(* C18: main() exits non-zero if and only if the authentication failed or *)
(* an exception left the step loop; a failure handled inside a step       *)
(* leaves the exit status zero.                                           *)
ExitStatusContract ==
  run.pc = "exited" =>
    (run.exit # 0 <=> (run.auth # "ok" \/ \E i \in DOMAIN run.started : Escaped(i)))

\* a run with a failed sync and a failed description update exited 0
ExitStatusWitness ==
  /\ run.pc = "exited"
  /\ run.exit = 0
  /\ \E i, j \in DOMAIN run.started :
       /\ run.started[i] = "sync" /\ run.outcomes[i] = "failed"
       /\ run.started[j] = "descriptions" /\ run.outcomes[j] = "failed"

\* a run in which an Exception left the rename step exited 1
ExitStatusEscapeWitness ==
  /\ run.pc = "exited"
  /\ run.exit = 1
  /\ run.auth = "ok"
  /\ run.error = "error"


-----------------------------------------------------------------------------
(* Claims about the deletions of consolidation *)

\* the step is a call of consolidate_old_monthly_playlists
ConsolidateStep == lastOp'.op = "consolidate" /\ opCount' = opCount + 1

\* the playlist is one consolidation collects
Collected(m, keep) ==
  /\ pl[m].live
  /\ IsRolledOff(pl[m].name, CutoffYearMonth(Now, keep))
  /\ pl[m].name.ptype \in PlaylistTypes

\* the membership get_playlist_tracks(sp, m) hands out without a refresh
View(m) == IF tcache[m].has THEN tcache[m].v ELSE pl[m].tracks

(* C19: when the re-fetched monthly playlist has a track the re-fetched    *)
(* yearly playlist lacks, the monthly playlist is not deleted and no       *)
(* deletion is attempted, the yearly playlist stays as it is, a warning is *)
(* logged, and the other monthly playlists, years and types are still      *)
(* compared and, when nothing is missing, deleted.                         *)
VerificationFailureLocal ==
  [][ConsolidateStep =>
       /\ \A k \in DOMAIN checks' :
            IF checks'[k].monthly_tracks \ checks'[k].yearly_tracks # {}
            THEN /\ checks'[k].warned
                 /\ pl'[checks'[k].monthly] = pl[checks'[k].monthly]
                 /\ \A d \in DOMAIN dels' : dels'[d].pid # checks'[k].monthly
                 /\ \A c \in DOMAIN calls' :
                      calls'[c].op = "delete" =>
                        calls'[c].pid \notin {checks'[k].monthly, checks'[k].yearly}
                 /\ pl'[checks'[k].yearly].live
                 /\ pl'[checks'[k].yearly].tracks = checks'[k].yearly_tracks
            ELSE ~pl'[checks'[k].monthly].live
       /\ \A m \in PIDs :
            (Collected(m, lastOp'.keep) /\ View(m) # {}) =>
              \E k \in DOMAIN checks' : checks'[k].monthly = m]_vars

\* the first monthly playlist kept a track the yearly playlist lacks and
\* was left alone; the second one, of the same year and type, was deleted
VerificationFailureLocalWitness ==
  /\ lastOp.op = "consolidate"
  /\ Len(checks) = 2
  /\ checks[1].warned
  /\ pl[checks[1].monthly].live
  /\ ~checks[2].warned
  /\ checks[2].yearly = checks[1].yearly
  /\ ~pl[checks[2].monthly].live

(* C20: consolidation deletes a monthly playlist only after the additions  *)
(* to the yearly playlist of the same year and type were issued and the    *)
(* forced re-fetch of both showed the monthly membership inside the yearly *)
(* one; the deletion goes through safe_delete_playlist with                *)
(* verify_tracks_preserved_in set to that yearly playlist.                 *)
ConsolidationDeletesVerified ==
  [][ConsolidateStep =>
       \A c \in DOMAIN calls' :
         calls'[c].op = "delete" =>
           \E d \in DOMAIN dels', k \in DOMAIN checks' :
             /\ dels'[d].pid = calls'[c].pid
             /\ dels'[d].done
             /\ dels'[d].step = "consolidate"
             /\ dels'[d].verify # 0
             /\ pl'[dels'[d].verify].live
             /\ pl'[dels'[d].verify].name =
                  YearlyName(pl[calls'[c].pid].name.ptype,
                             ParsedMonth(pl[calls'[c].pid].name)[1])
             /\ checks'[k].monthly = calls'[c].pid
             /\ checks'[k].yearly = dels'[d].verify
             /\ checks'[k].monthly_tracks = pl[calls'[c].pid].tracks
             /\ checks'[k].yearly_tracks = pl'[dels'[d].verify].tracks
             /\ checks'[k].monthly_tracks \subseteq checks'[k].yearly_tracks
             /\ \A a \in DOMAIN calls' :
                  (calls'[a].op = "add" /\ calls'[a].pid = dels'[d].verify) => a < c]_vars

\* tracks were added to the yearly playlist and then a monthly playlist
\* was deleted against it
ConsolidationDeletesVerifiedWitness ==
  /\ lastOp.op = "consolidate"
  /\ \E a, c \in DOMAIN calls, d \in DOMAIN dels :
       /\ a < c
       /\ calls[a].op = "add"
       /\ calls[c].op = "delete"
       /\ dels[d].pid = calls[c].pid
       /\ dels[d].done
       /\ dels[d].verify = calls[a].pid

-----------------------------------------------------------------------------
(* The description synchronizer called again and again (DescSpec)          *)

\* the attempts of the last call to change the description, accepted or not
PushAttempts == {i \in DOMAIN calls : calls[i].op \in {"describe", "describe_rejected"}}

\* the same attempts in the state the step leads to
PushAttemptsAfter == {i \in DOMAIN calls' : calls'[i].op \in {"describe", "describe_rejected"}}

\* the text is empty or consists of whitespace only
AllBlank(s) == \A i \in 1..Len(s) : s[i] \in Whitespace

\* C21: when the remote side refuses the push of a description, the call
\* makes exactly one further push, and returns False when that one is
\* refused too
RejectedPushRetriedOnce ==
  (lastOp.op = "update_description" /\ lastOp.first = "rejected") =>
    /\ Cardinality(PushAttempts) = 2
    /\ (lastOp.second = "rejected" => result = "False")

\* C22: a call on a playlist whose derived, parenthesis-stripped and
\* sanitized description is empty or whitespace only makes no call that
\* changes the description, leaves the description as it is and returns
\* False
NeverPushesEmpty ==
  [][(/\ lastOp'.op = "update_description"
      /\ AllBlank(NewDescription(pl[Target].desc, pl[Target].name)))
     => /\ PushAttemptsAfter = {}
        /\ pl'[Target].desc = pl[Target].desc
        /\ result' = "False"]_vars

\* a call went past the marker test and the track test on a playlist whose
\* description comes out empty, and returned False
NeverPushesEmptyWitness ==
  /\ lastOp.op = "update_description"
  /\ pl[Target].tracks # {}
  /\ pl[Target].desc # <<>>
  /\ ~LookupRaises(World, Target)
  /\ ~SkipsUnchanged(World, Target)
  /\ AllBlank(NewDescription(pl[Target].desc, pl[Target].name))
  /\ reads > 0
  /\ result = "False"

\* C29: on a playlist with at least one track that nothing else touches,
\* no call after the first changes the description
OnlyFirstCallPushes ==
  [][(/\ lastOp'.op = "update_description"
      /\ lastOp'.first = "ok"
      /\ opCount >= 1
      /\ pl[Target].tracks # {})
     => PushAttemptsAfter = {}]_vars

\* C30: a call that ends without a push that went through, because the
\* remote side refused, because the playlist has no tracks or because the
\* description would be empty, leaves the marker cache file as it was, and
\* a refused call is not skipped the next time; the entry of the playlist
\* changes only in a call whose push went through or that found the
\* description up to date
FailedUpdateKeepsMarker ==
  [][lastOp'.op = "update_description"
     => /\ (\/ (\E i \in DOMAIN calls' : calls'[i].op = "describe_rejected")
               /\ result' = "False"
            \/ pl[Target].tracks = {}
            \/ AllBlank(NewDescription(pl[Target].desc, pl[Target].name)))
           => /\ dkind' = dkind
              /\ dcache' = dcache
        /\ (\E i \in DOMAIN calls' : calls'[i].op = "describe_rejected")
           => ~SkipsUnchanged(World, Target)'
        /\ (dkind' # dkind \/ dcache' # dcache)
           => /\ dkind' = "map"
              /\ dcache' = [LoadSnapshotCache(World) EXCEPT ![Target] = pl[Target].snap]
              /\ \/ /\ result' = "True"
                    /\ \E i \in DOMAIN calls' : calls'[i].op = "describe"
                 \/ /\ result' = "False"
                    /\ PushAttemptsAfter = {}
                    /\ NewDescription(pl[Target].desc, pl[Target].name) = pl[Target].desc]_vars

\* the remote side refused the push and the cached marker is not the
\* marker of the playlist
FailedUpdateKeepsMarkerWitness ==
  /\ lastOp.op = "update_description"
  /\ lastOp.first = "rejected"
  /\ \E i \in DOMAIN calls : calls[i].op = "describe_rejected"
  /\ result = "False"
  /\ dkind = "map"
  /\ dcache[Target] # pl[Target].snap

-----------------------------------------------------------------------------
(* What consolidation leaves behind (ConsSpec)                             *)

\* the live playlists whose name is a monthly name of an enabled type for
\* a month at or before the cutoff of the call
RolledOffLeft(keep_last_n_months) ==
  {p \in PIDs : /\ pl[p].live
                /\ pl[p].name.ptype \in PlaylistTypes
                /\ IsRolledOff(pl[p].name, CutoffYearMonth(Now, keep_last_n_months))}

\* C23: after consolidate_old_monthly_playlists(keep_last_n_months) has
\* completed, no monthly playlist of an enabled type for a month at or
\* before the cutoff is left, empty ones included
ConsolidationComplete ==
  lastOp.op = "consolidate" => RolledOffLeft(lastOp.keep) = {}

-----------------------------------------------------------------------------
(* The placeholder of the current month (PlaceholderSpec)                  *)

\* the names of the playlists the step creates or brings up to date
MonthsProcessed ==
  {pl'[calls'[i].pid].name : i \in {j \in DOMAIN calls' : calls'[j].op = "create"}}
  \cup {pl[updates'[u].pid].name : u \in DOMAIN updates'}

\* the names of the Finds playlists of the last n calendar months
LastMonthNames(n) ==
  {MonthlyName("monthly", ym) :
     ym \in {m \in AllMonths : Ord(Now) - n < Ord(m) /\ Ord(m) <= Ord(Now)}}

\* C24: after update_monthly_playlists(keep_last_n_months) with
\* keep_last_n_months >= 1 a Finds playlist named for the current month
\* exists, created with no track when no liked song was added in the
\* month, and the playlists the call creates or brings up to date are
\* those of the last keep_last_n_months calendar months, whichever months
\* have liked songs
CurrentMonthPlaceholder ==
  [][(lastOp'.op = "update_monthly" /\ lastOp'.keep >= 1)
     => /\ \E p \in PIDs : pl'[p].live /\ pl'[p].name = MonthlyName("monthly", Now)
        /\ ((\A p \in PIDs : ~(pl[p].live /\ pl[p].name = MonthlyName("monthly", Now)))
            /\ (\A t \in Tracks : liked[t] # Now))
           => \E i \in DOMAIN calls' :
                /\ calls'[i].op = "create"
                /\ pl'[calls'[i].pid].live
                /\ pl'[calls'[i].pid].name = MonthlyName("monthly", Now)
                /\ pl'[calls'[i].pid].tracks = {}
        /\ MonthsProcessed = LastMonthNames(lastOp'.keep)
        /\ Cardinality(MonthsProcessed) = lastOp'.keep]_vars

\* the call kept three months with liked songs two months ago only; the
\* playlists of last month and of this month were created empty
CurrentMonthPlaceholderWitness ==
  /\ lastOp = Op("update_monthly", MaxKeepCall)
  /\ \A t \in Tracks : liked[t] \in {SubMonths(Now, 2), NotLiked}
  /\ \E t \in Tracks : liked[t] = SubMonths(Now, 2)
  /\ \E i \in DOMAIN calls :
       /\ calls[i].op = "create"
       /\ pl[calls[i].pid].name = MonthlyName("monthly", Now)
       /\ pl[calls[i].pid].tracks = {}
  /\ \E p \in PIDs : /\ pl[p].live
                     /\ pl[p].name = MonthlyName("monthly", SubMonths(Now, 1))
                     /\ pl[p].tracks = {}

-----------------------------------------------------------------------------
(* The order of the tracks of a yearly playlist (RankSpec)                 *)

RECURSIVE AddedTo(_, _)
\* the tracks the add calls of cs send to playlist pid, in order
AddedTo(cs, pid) ==
  IF cs = <<>> THEN <<>>
  ELSE (IF Head(cs).op = "add" /\ Head(cs).pid = pid THEN Head(cs).uris ELSE <<>>)
       \o AddedTo(Tail(cs), pid)

\* the type and the year of the two monthly playlists drawn
RankType == pl[Target].name.ptype
RankYear == ParsedMonth(pl[Target].name)[1]

\* the tracks of the two monthly playlists in the order they are met
Encountered ==
  Dedup(SetToSeq(pl[Target].tracks) \o SetToSeq(pl[Successor].tracks), {})

\* the number of streaming-history rows of the track in the year
PlayCount(year, t) == IF year = Now[1] THEN plays[t] ELSE 0

\* the position of track t in list s
PositionIn(s, t) == CHOOSE i \in DOMAIN s : s[i] = t

\* list out is list in ordered by play count of the year, most played
\* first, tracks of equal count in the order of list in
RankedStably(in, out, year) ==
  /\ Len(out) = Len(in)
  /\ SeqToSet(out) = SeqToSet(in)
  /\ \A i, j \in DOMAIN out :
       i < j => \/ PlayCount(year, out[i]) > PlayCount(year, out[j])
                \/ /\ PlayCount(year, out[i]) = PlayCount(year, out[j])
                   /\ PositionIn(in, out[i]) < PositionIn(in, out[j])

\* the yearly playlist the call created for the type and the year drawn
RankYearly ==
  {p \in PIDs : /\ pl'[p].live
                /\ ~pl[p].live
                /\ pl'[p].name = YearlyName(RankType, RankYear)}

\* C25: the tracks gathered from most-played monthly playlists are sent
\* to the yearly playlist ordered by the year's play count, most played
\* first, tracks of equal count in the order they were met, tracks without
\* a play last; every gathered track is sent, once
RerankIsStableSort ==
  [][(lastOp'.op = "consolidate" /\ RankType = "most_played" /\ Encountered # <<>>)
     => /\ RankYearly # {}
        /\ \A p \in RankYearly :
             RankedStably(Encountered, AddedTo(calls', p), RankYear)]_vars

\* two tracks met in the order 2, 1: the one with a play was sent before
\* the one without, or they were sent as met when both have a play
RerankIsStableSortWitness ==
  /\ lastOp.op = "consolidate"
  /\ \E p \in PIDs :
       /\ pl[p].live
       /\ pl[p].name = YearlyName("most_played", Now[1])
       /\ \/ /\ AddedTo(calls, p) = <<1, 2>>
             /\ \E i \in DOMAIN checks : checks[i].monthly = Target
                                         /\ checks[i].monthly_tracks = {2}
             /\ plays[1] > plays[2]
          \/ /\ AddedTo(calls, p) = <<2, 1>>
             /\ \E i \in DOMAIN checks : checks[i].monthly = Target
                                         /\ checks[i].monthly_tracks = {2}
             /\ plays[1] = plays[2]
             /\ plays[1] > 0

-----------------------------------------------------------------------------
(* The years consolidation works on (YearsSpec)                            *)

\* a playlist of this name exists
Named(name) == \E p \in PIDs : pl[p].live /\ pl[p].name = name

\* the year has a monthly playlist of an enabled type for a month at or
\* before the cutoff
HasOldMonthly(year, cutoff) ==
  \E p \in PIDs :
    /\ pl[p].live
    /\ pl[p].name.kind = "month"
    /\ pl[p].name.ptype \in PlaylistTypes
    /\ ParsedMonth(pl[p].name)[1] = year
    /\ Ord(ParsedMonth(pl[p].name)) <= Ord(cutoff)

\* the streaming history has tracks of the year for a ranked type whose
\* yearly playlist does not exist
HasHistoryWithoutYearly(year) ==
  /\ year = Now[1]
  /\ \E t \in Tracks : plays[t] > 0
  /\ \E ptype \in {"most_played", "discovery"} : ~Named(YearlyName(ptype, year))

\* a song was liked in the year at or before the cutoff and the yearly
\* Finds playlist does not exist
HasLikedWithoutYearly(year, cutoff) ==
  /\ \E t \in Tracks : /\ liked[t] # NotLiked
                       /\ liked[t][1] = year
                       /\ Ord(liked[t]) <= Ord(cutoff)
  /\ ~Named(YearlyName("monthly", year))

\* the years of the playlists the calls of the step touch
YearsTouched ==
  {(IF pl'[calls'[i].pid].live THEN pl'[calls'[i].pid].name
                               ELSE pl[calls'[i].pid].name).yy : i \in DOMAIN calls'}

\* C27: the years consolidate_old_monthly_playlists works on are the years
\* with a monthly playlist at or before the cutoff, with history tracks
\* for a ranked type without its yearly playlist, or with liked songs at
\* or before the cutoff without the yearly Finds playlist; the calls that
\* change the library touch playlists of these years only, and there is
\* none when no year qualifies
CandidateYears ==
  [][lastOp'.op = "consolidate"
     => /\ result' =
             {y \in (Now[1] - 2)..(Now[1] + 1) :
                \/ HasOldMonthly(y, SubMonths(Now, lastOp'.keep))
                \/ HasHistoryWithoutYearly(y)
                \/ HasLikedWithoutYearly(y, SubMonths(Now, lastOp'.keep))}
        /\ YearsTouched \subseteq {YearShort(y) : y \in result'}
        /\ result' = {} => calls' = <<>> /\ pl' = pl]_vars

\* last year qualified by its liked songs alone and got its yearly Finds
\* playlist, this year did not qualify
CandidateYearsWitness ==
  /\ lastOp.op = "consolidate"
  /\ result = {Now[1] - 1}
  /\ \A p \in PIDs : pl[p].live => pl[p].name.kind = "year"
  /\ \E i \in DOMAIN calls : /\ calls[i].op = "create"
                             /\ pl[calls[i].pid].name = YearlyName("monthly", Now[1] - 1)
  /\ \E t \in Tracks : liked[t] = Now

\* no year qualified although the library has a playlist and there are
\* liked songs and plays
NoCandidateYearWitness ==
  /\ lastOp.op = "consolidate"
  /\ result = {}
  /\ calls = <<>>
  /\ \E p \in PIDs : pl[p].live
  /\ \E t \in Tracks : liked[t] # NotLiked

-----------------------------------------------------------------------------
(* One playlist per managed name (Spec)                                    *)

\* C28: in every step of the pipeline a create call is issued only for a
\* name under which no playlist exists yet, so that no two playlists of
\* the library have the same name
NoDuplicatePlaylists ==
  \A p, q \in PIDs : (pl[p].live /\ pl[q].live /\ pl[p].name = pl[q].name) => p = q

====
